---- MODULE Spec2Model ----
(***************************************************************************)
(* Verification model of the DynamoDB point-in-time restore orchestrator:  *)
(* scripts/restore-dynamodb-pitr/restore_dynamodb_pitr.py (the current     *)
(* variant) and scripts/restore_dynamodb_pitr.py (the original variant).   *)
(*                                                                         *)
(* Time is the wall clock in seconds.  Every system call and every         *)
(* provider call of the script is one atomic step; the clock advances      *)
(* between steps (action Tick).                                            *)
(*                                                                         *)
(* Specifications:                                                         *)
(*   SpecLock  NumRuns processes in RestoreLock.acquire/release around an  *)
(*             abstract locked block                                       *)
(*   SpecRun   one run() of the current variant against the provider       *)
(*   SpecName  restore table naming of both variants                       *)
(*   SpecSwap  _swap_table_data on one table, row by row                   *)
(*   SpecValid _validate_restore_point of both variants                    *)
(*   SpecOrig  one run() of the original variant against the provider      *)
(*   SpecRunFair  SpecRun with the progress of the script and of time      *)
(*   SpecFind  _find_old_restore_tables and the cleanup, on table names    *)
(***************************************************************************)
EXTENDS Integers, Sequences, FiniteSets, TLC

\* ------------------------------------------------------------------ bounds
\* number of orchestrator processes sharing one lock path
NumRuns == 2
\* number of clock advances in one behaviour
MaxTicks == 2

\* number of name derivations in one behaviour of SpecName
MaxDerivations == 3
\* rows of the largest table given to SpecSwap
MaxRows == 27
\* batches of one swap that come back with UnprocessedItems
MaxUnprocessed == 1

\* ------------------------------------------------------- program constants
\* RestoreLock.acquire(timeout_seconds=5)
AcquireTimeout == 5
\* RestoreLock._is_stale(stale_after_seconds=3600)
StaleAfter == 3600
\* timeout_minutes=30, timeout_seconds = self.timeout_minutes * 60
PollTimeout == 1800
\* max_age = timedelta(days=35), in seconds
MaxAge == 3024000

Procs == 1..NumRuns
\* the process whose run() SpecRun follows step by step
Runner == CHOOSE p \in Procs : \A q \in Procs : p <= q
\* the clock advances by the acquisition timeout or by the staleness bound
TickSteps == {AcquireTimeout, StaleAfter}

\* self.tables, in the iteration order of the dict
TableKeys == <<"quotes", "user_likes", "user_views">>
Keys == {TableKeys[i] : i \in 1..Len(TableKeys)}
NumTables == Len(TableKeys)

VARIABLES
    now,            \* time.time()
    ticks,          \* clock advances so far
    \* --- RestoreLock
    marker,         \* the lock file: [exists, owner, mtime, removable]
    pc,             \* pc[p]: position of process p in run()/acquire()/release()
    start_time,     \* start_time[p]: local of acquire()
    lock_acquired,  \* lock_acquired[p]: RestoreLock.lock_acquired
    created,        \* created[p]: the time p wrote into the marker it created, -1 if none
    \* --- run() of the Runner
    run,            \* the locals and fields of run(), see RunInit
    \* --- provider
    tstatus,        \* status of this recovery point's restore table, per key
    start_tstatus,  \* tstatus when the run started
    old_exists,     \* keys that have a restore table of another recovery point
    prod,           \* content of the production table, per key
    \* --- function-level specifications
    naming,         \* SpecName: the derivations of restore table names, see NameInit
    swap,           \* SpecSwap: one _swap_table_data, see SwapInit
    valid,          \* SpecValid: one _validate_restore_point, see ValidInit
    orig,           \* SpecOrig: one run() of the original variant, see OrigInit
    find            \* SpecFind: one search and cleanup of old restore tables, see FindInit

clockVars == <<now, ticks>>
lockVars == <<marker, pc, start_time, lock_acquired, created>>
lockLocals == <<marker, start_time, lock_acquired, created>>
providerVars == <<tstatus, start_tstatus, old_exists, prod>>
runVars == <<run, providerVars>>
auxVars == <<naming, swap, valid, orig, find>>
vars == <<clockVars, lockVars, runVars, auxVars>>
\* what the steps of RestoreLock, and the steps of run(), leave alone
lockFrame == <<clockVars, runVars, auxVars>>
runFrame == <<clockVars, lockLocals, auxVars>>

NoMarker == [exists |-> FALSE, owner |-> 0, mtime |-> 0, removable |-> TRUE]

\* a marker left by an earlier process (owner 0): fresh or older than the bound,
\* removable by this user or not
InitialMarkers ==
    {NoMarker} \cup
    { [exists |-> TRUE, owner |-> 0, mtime |-> m, removable |-> r] :
        m \in {0, 0 - (StaleAfter + 1)}, r \in BOOLEAN }

\* ------------------------------------------------------------------ clock
Tick ==
    /\ ticks < MaxTicks
    /\ \E d \in TickSteps : now' = now + d
    /\ ticks' = ticks + 1
    /\ UNCHANGED <<lockVars, runVars, auxVars>>

\* ------------------------------------------------------------ RestoreLock
\* acquire(): start_time = time.time()
AcquireStart(p) ==
    /\ pc[p] = "enter_lock"
    /\ start_time' = [start_time EXCEPT ![p] = now]
    /\ pc' = [pc EXCEPT ![p] = "acq_loop"]
    /\ UNCHANGED <<marker, lock_acquired, created, lockFrame>>

\* an acquisition loop without deadline: while True
AcquireLoopTestNoDeadline(p) ==
    /\ pc[p] = "acq_loop"
    /\ pc' = [pc EXCEPT ![p] = "acq_open"]
    /\ UNCHANGED <<lockLocals, lockFrame>>

\* while time.time() - start_time < timeout_seconds
AcquireLoopTest(p) ==
    /\ pc[p] = "acq_loop"
    /\ pc' = [pc EXCEPT ![p] =
                IF now - start_time[p] < AcquireTimeout THEN "acq_open" ELSE "acq_failed"]
    /\ UNCHANGED <<lockLocals, lockFrame>>

\* os.open(O_CREAT | O_EXCL | O_WRONLY) creates the file only if it is absent
OpenExclusive(p) ==
    IF marker.exists THEN marker
    ELSE [exists |-> TRUE, owner |-> p, mtime |-> now, removable |-> TRUE]

\* os.open(...), the write of pid and time, lock_acquired = True, return True;
\* FileExistsError leads to _is_stale()
AcquireOpen(p) ==
    /\ pc[p] = "acq_open"
    /\ marker' = OpenExclusive(p)
    /\ IF marker.exists
         THEN /\ pc' = [pc EXCEPT ![p] = "stale_exists"]
              /\ UNCHANGED <<lock_acquired, created>>
         ELSE /\ pc' = [pc EXCEPT ![p] = "acquired"]
              /\ lock_acquired' = [lock_acquired EXCEPT ![p] = TRUE]
              /\ created' = [created EXCEPT ![p] = now]
    /\ UNCHANGED <<start_time, lockFrame>>

\* _is_stale(): if not self.lock_file.exists(): return False
StaleExists(p) ==
    /\ pc[p] = "stale_exists"
    /\ pc' = [pc EXCEPT ![p] = IF marker.exists THEN "stale_stat" ELSE "acq_sleep"]
    /\ UNCHANGED <<lockLocals, lockFrame>>

\* the age test of _is_stale: time.time() - mtime > stale_after_seconds
IsStaleAge(mtime) == now - mtime > StaleAfter

\* _is_stale(): mtime = stat().st_mtime; return time.time() - mtime > stale_after.
\* stat() of a file removed since exists() raises FileNotFoundError, which leaves
\* acquire() through the except handler it was raised in.
StaleStat(p) ==
    /\ pc[p] = "stale_stat"
    /\ pc' = [pc EXCEPT ![p] =
                IF ~marker.exists THEN "acq_raised"
                ELSE IF IsStaleAge(marker.mtime) THEN "acq_unlink"
                ELSE "acq_sleep"]
    /\ UNCHANGED <<lockLocals, lockFrame>>

\* Path.unlink(): removes whatever file is at the path now; raises when there
\* is none or when it may not be removed
Unlink == IF marker.exists /\ marker.removable THEN NoMarker ELSE marker

\* try: self.lock_file.unlink() except Exception: pass; continue
AcquireUnlink(p) ==
    /\ pc[p] = "acq_unlink"
    /\ marker' = Unlink
    /\ pc' = [pc EXCEPT ![p] = "acq_loop"]
    /\ UNCHANGED <<start_time, lock_acquired, created, lockFrame>>

\* time.sleep(0.5)
AcquireSleep(p) ==
    /\ pc[p] = "acq_sleep"
    /\ pc' = [pc EXCEPT ![p] = "acq_loop"]
    /\ UNCHANGED <<lockLocals, lockFrame>>

\* release(): if self.lock_acquired and self.lock_file.exists()
ReleaseTest(p) ==
    /\ pc[p] = "release"
    /\ pc' = [pc EXCEPT ![p] =
                IF lock_acquired[p] /\ marker.exists THEN "rel_unlink" ELSE "released"]
    /\ UNCHANGED <<lockLocals, lockFrame>>

\* release(): self.lock_file.unlink(); self.lock_acquired = False
\* (an unlink that raises is logged, and lock_acquired stays set)
ReleaseUnlink(p) ==
    /\ pc[p] = "rel_unlink"
    /\ marker' = Unlink
    /\ lock_acquired' = [lock_acquired EXCEPT ![p] = ~(marker.exists /\ marker.removable)]
    /\ pc' = [pc EXCEPT ![p] = "released"]
    /\ UNCHANGED <<start_time, created, lockFrame>>

\* ------------------------------------------- run(): the locked block, abstract
\* The stages of the with-block of run(), in order.
LockedStages == <<"acquired", "in_initiate", "in_poll", "in_verify", "in_swap", "in_cleanup">>
AbstractPcs == {LockedStages[i] : i \in 1..Len(LockedStages)}

StageIndex(s) == CHOOSE i \in 1..Len(LockedStages) : LockedStages[i] = s

\* __enter__: acquire() returned False -> RuntimeError, caught by run()
EnterFailed(p) ==
    /\ pc[p] \in {"acq_failed", "acq_raised"}
    /\ pc' = [pc EXCEPT ![p] = "done"]
    /\ UNCHANGED <<lockLocals, lockFrame>>

\* one stage of the with-block ends: with success the next stage starts, and
\* after cleanup, or with a failure (return False) or an exception, the block
\* is left through __exit__, which calls release()
LockedAdvance(p) ==
    /\ pc[p] \in AbstractPcs
    /\ \/ /\ StageIndex(pc[p]) < Len(LockedStages)
          /\ pc' = [pc EXCEPT ![p] = LockedStages[StageIndex(pc[p]) + 1]]
       \/ pc' = [pc EXCEPT ![p] = "release"]
    /\ UNCHANGED <<lockLocals, lockFrame>>

\* after __exit__ the status is written and run() returns
RunReturn(p) ==
    /\ pc[p] = "released"
    /\ pc' = [pc EXCEPT ![p] = "done"]
    /\ UNCHANGED <<lockLocals, lockFrame>>

\* ------------------------------------------------------- recovery point
\* A parsed restore_point_in_time: the wall-clock reading of the string (wall,
\* in seconds) and its zone offset (off, seconds east of UTC) when kind is
\* "aware"; "naive" has no offset; "bad" does not parse.
\* pytz.timezone('Europe/Berlin').localize: the modelled instants lie in
\* winter time (CET)
BerlinOffset == 3600

\* date_parser.isoparse + localize: tzinfo of restore_dt
OffsetOf(r) == IF r.kind = "naive" THEN BerlinOffset ELSE r.off
\* restore_dt.astimezone(pytz.UTC)
InstantOf(r) == r.wall - OffsetOf(r)
\* restore_dt.strftime('%Y%m%d%H%M%S'): the wall-clock fields of restore_dt in
\* its own zone, whole seconds, without the offset
TokenOf(r) == r.wall

Aware(w, o) == [kind |-> "aware", wall |-> w, off |-> o]
Naive(w) == [kind |-> "naive", wall |-> w, off |-> 0]
BadInput == [kind |-> "bad", wall |-> 0, off |-> 0]

\* timedelta(days=1), in seconds
Day == 24 * 3600
\* recovery points of a run: two days old, forty days old, in the future,
\* unparsable
RunRecoveryPoints ==
    { Naive(0 - 2 * Day + BerlinOffset), Aware(0 - 40 * Day, 0), Aware(Day, 0), BadInput }

\* ------------------------------------------------ run(), current variant
At(l) == pc[Runner] = l
Goto(l) == pc' = [pc EXCEPT ![Runner] = l]

Call(op, space, key) == [op |-> op, space |-> space, key |-> key]
\* spaces: "restore" the restore table of this recovery point, "old" a restore
\* table of another recovery point, "prod" the production table, "all" no key
MutatingOps == {"delete_table", "restore_table_to_point_in_time", "batch_write_item"}

Status(s, reason) == <<s, reason>>

NoneSeen == [k \in Keys |-> ""]

\* the fields and locals of one run()
RunInit(dry, r) ==
    [ dry_run |-> dry,                \* self.dry_run
      rp |-> r,                       \* restore_point_in_time, parsed
      restore_point_timestamp |-> <<>>, \* self.restore_point_timestamp, <<>> for None
      existing |-> NoneSeen,          \* existing_restore_tables: status seen, "" if not in it
      skip_restore |-> FALSE,
      old_list |-> {},                \* old_restore_tables still to delete
      idx |-> 1,                      \* position of the current for-loop over self.tables
      poll_start |-> 0,               \* start_time of _poll_restore_completion
      all_active |-> FALSE,           \* all_active of the current poll pass
      observed |-> {},                \* keys answered ACTIVE in the current pass
      full_pass |-> FALSE,            \* some pass saw every restore table ACTIVE
      answer |-> "",                  \* the provider's last answer in initiation
                                      \*   ("accepted", "rejected") and in the current
                                      \*   poll pass (a status, "not_found"); "error";
                                      \*   what made the count check return False
      pending |-> "",                 \* how the with-block is left:
                                      \*   "return_false", "exception", "completed"
      status_log |-> <<>>,            \* what _update_status wrote: <<status, reason>>
      ret |-> "none",                 \* return value of run(): "True", "False"
      validated |-> "no",             \* _validate_restore_point: "ok", "rejected"
      calls |-> {},                   \* provider calls issued: [op, space, key]
      exit_code |-> 0 - 1 ]           \* exit status of the process, -1 while it runs

Write(r, s, reason) == [r EXCEPT !.status_log = Append(@, Status(s, reason))]
Called(r, op, space, key) == [r EXCEPT !.calls = @ \cup {Call(op, space, key)}]

\* the for-loop over self.tables moves on; after the last table the code
\* after the loop runs
NextIdx(r) == [r EXCEPT !.idx = IF r.idx < NumTables THEN r.idx + 1 ELSE 1]
LoopGoto(after) == IF run.idx < NumTables THEN UNCHANGED pc ELSE Goto(after)

\* _update_status("INITIALIZING", ...)
RunBegin ==
    /\ At("begin")
    /\ run' = Write(run, "INITIALIZING", "")
    /\ Goto("parse")
    /\ UNCHANGED <<runFrame, providerVars>>

\* restore_dt = isoparse(...); localize; self.restore_point_timestamp = strftime;
\* restore_tables = self._get_restore_table_names().  A string that does not
\* parse raises, and run()'s except handler records FAILED.
RunParse ==
    /\ At("parse")
    /\ IF run.rp.kind = "bad"
         THEN /\ run' = [Write(run, "FAILED", "parse error") EXCEPT !.ret = "False"]
              /\ Goto("done")
         ELSE /\ run' = [run EXCEPT !.restore_point_timestamp = <<TokenOf(run.rp)>>, !.idx = 1]
              /\ Goto("check_existing")
    /\ UNCHANGED <<runFrame, providerVars>>

\* _check_existing_restore_tables, one iteration: describe_table(restore table).
\* answered: the status enters the dict; ResourceNotFoundException or another
\* ClientError (a warning): nothing enters the dict.
CheckExistingResult(seen, k, answered) ==
    IF answered /\ tstatus[k] # "ABSENT" THEN [seen EXCEPT ![k] = tstatus[k]]
    ELSE seen

\* an exception outside the with-block reaches run()'s except handler:
\* _update_status("FAILED", str(e)); return False
RaiseOutside(r) == [Write(r, "FAILED", "exception") EXCEPT !.ret = "False"]

\* an exception that is no ClientError (no credentials, no connection) is not
\* caught in _check_existing_restore_tables
RunCheckExisting ==
    /\ At("check_existing")
    /\ \E outcome \in {"answered", "client_error", "other_error"} :
         LET k == TableKeys[run.idx]
             r1 == Called(run, "describe_table", "restore", k)
             r2 == [r1 EXCEPT !.existing =
                      CheckExistingResult(run.existing, k, outcome = "answered")]
         IN IF outcome = "other_error"
              THEN /\ run' = RaiseOutside(r1)
                   /\ Goto("done")
              ELSE /\ run' = NextIdx(r2)
                   /\ LoopGoto("decide")
    /\ UNCHANGED <<runFrame, providerVars>>

\* if existing_restore_tables: skip_restore = True (all ACTIVE or not)
\* else: skip_restore = False
SkipRestore(seen) == \E k \in Keys : seen[k] # ""

RunDecide ==
    /\ At("decide")
    /\ run' = [run EXCEPT !.skip_restore = SkipRestore(run.existing)]
    /\ IF SkipRestore(run.existing) THEN Goto("validate") ELSE Goto("find_old")
    /\ UNCHANGED <<runFrame, providerVars>>

\* _find_old_restore_tables: list_tables; the names that start with
\* "<table>-restore-" and are not current restore names; [] when listing fails
FindOldRestoreTables(listed) == IF listed THEN old_exists ELSE {}

\* a cleanup of old restore tables that does not look at dry_run
CleansUpOldAlways(found) == found # {}
\* if old_restore_tables: if not self.dry_run: _cleanup_existing_restore_tables
CleansUpOld(found) == found # {} /\ ~run.dry_run

RunFindOld ==
    /\ At("find_old")
    /\ \E listed \in BOOLEAN :
         LET found == FindOldRestoreTables(listed) IN
         /\ run' = [Called(run, "list_tables", "all", "") EXCEPT !.old_list = found]
         /\ IF CleansUpOld(found) THEN Goto("cleanup_old") ELSE Goto("validate")
    /\ UNCHANGED <<runFrame, providerVars>>

KeyIndex(k) == CHOOSE i \in 1..NumTables : TableKeys[i] = k
FirstOf(s) == CHOOSE k \in s : \A j \in s : KeyIndex(k) <= KeyIndex(j)

\* _cleanup_existing_restore_tables, one iteration: delete_table(old table);
\* a ClientError is logged, another exception is not caught.  After the loop:
\* time.sleep(10)
RunCleanupOld ==
    /\ At("cleanup_old")
    /\ run.old_list # {}
    /\ LET k == FirstOf(run.old_list)
           r1 == Called(run, "delete_table", "old", k) IN
       \E outcome \in {"deleted", "client_error", "other_error"} :
         /\ old_exists' = IF outcome = "deleted" THEN old_exists \ {k} ELSE old_exists
         /\ IF outcome = "other_error"
              THEN /\ run' = RaiseOutside(r1)
                   /\ Goto("done")
              ELSE /\ run' = [r1 EXCEPT !.old_list = @ \ {k}]
                   /\ IF run.old_list = {k} THEN Goto("validate") ELSE UNCHANGED pc
    /\ UNCHANGED <<runFrame, tstatus, start_tstatus, prod>>

\* _validate_restore_point: age = now_utc - restore_dt_utc;
\* False if age > max_age, False if age < timedelta(0), else True
ValidateRestorePoint(r) ==
    LET age == now - InstantOf(r) IN
    IF age > MaxAge THEN FALSE
    ELSE IF age < 0 THEN FALSE
    ELSE TRUE

\* if not self._validate_restore_point(...): FAILED "Invalid restore point"
RunValidate ==
    /\ At("validate")
    /\ IF ValidateRestorePoint(run.rp)
         THEN /\ run' = [run EXCEPT !.validated = "ok"]
              /\ Goto("enter_lock")
         ELSE /\ run' = [Write(run, "FAILED", "Invalid restore point")
                           EXCEPT !.validated = "rejected", !.ret = "False"]
              /\ Goto("done")
    /\ UNCHANGED <<runFrame, providerVars>>

\* __enter__: acquire() returned False -> RuntimeError("Could not acquire
\* restore lock"); a FileNotFoundError out of _is_stale likewise reaches
\* run()'s except handler: FAILED with str(e), return False
RunEnterFailed ==
    /\ At("acq_failed") \/ At("acq_raised")
    /\ run' = [Write(run, "FAILED", IF At("acq_failed") THEN "Could not acquire restore lock"
                                    ELSE "No such file or directory")
                 EXCEPT !.ret = "False"]
    /\ Goto("done")
    /\ UNCHANGED <<runFrame, providerVars>>

\* with RestoreLock(...) as lock: if not skip_restore: _initiate_pitr_restores
AfterAcquire == IF run.skip_restore THEN "poll_begin" ELSE "initiate"

RunEnterBlock ==
    /\ At("acquired")
    /\ run' = [run EXCEPT !.idx = 1]
    /\ Goto(AfterAcquire)
    /\ UNCHANGED <<runFrame, providerVars>>

\* a stage returned False and the status is written without error_message
FailInBlockNoReason(r, reason) == [Write(r, "FAILED", "") EXCEPT !.pending = "return_false"]
\* a stage returned False: _update_status("FAILED", reason); return False, which
\* leaves the with-block through __exit__
FailInBlock(r, reason) == [Write(r, "FAILED", reason) EXCEPT !.pending = "return_false"]
\* an exception that no stage catches leaves the with-block through __exit__;
\* run()'s except handler records FAILED after it
RaiseInBlock(r) == [r EXCEPT !.pending = "exception"]

\* a with-block whose exit skips RestoreLock.release
ExitBlockSkipsRelease == "released"
\* where the with-block is left to: __exit__ calls release()
ExitBlock == "release"

\* an initiation that logs a rejected request and goes on with the next table
RunInitiateContinues ==
    /\ At("initiate")
    /\ LET k == TableKeys[run.idx] IN
       IF run.dry_run
         THEN /\ run' = NextIdx(run)
              /\ LoopGoto("poll_begin")
              /\ UNCHANGED tstatus
         ELSE LET r1 == Called(run, "restore_table_to_point_in_time", "restore", k) IN
              \E outcome \in {"accepted", "client_error"} :
                LET taken == outcome = "accepted" /\ tstatus[k] = "ABSENT" IN
                /\ tstatus' = IF taken THEN [tstatus EXCEPT ![k] = "CREATING"] ELSE tstatus
                /\ run' = NextIdx([r1 EXCEPT !.answer = IF taken THEN "accepted"
                                                        ELSE "rejected"])
                /\ LoopGoto("poll_begin")
    /\ UNCHANGED <<runFrame, start_tstatus, old_exists, prod>>

\* _initiate_pitr_restores, one iteration.  dry_run: continue.  Otherwise
\* restore_table_to_point_in_time: accepted (the target does not exist and the
\* provider takes the request) -> the restore table is being created;
\* InvalidRestoreTimeException -> describe_table(original), raise; ClientError
\* (also TableAlreadyExistsException for a target that exists) -> return
\* False; any other exception leaves the with-block.
RunInitiate ==
    /\ At("initiate")
    /\ LET k == TableKeys[run.idx] IN
       IF run.dry_run
         THEN /\ run' = NextIdx(run)
              /\ LoopGoto("poll_begin")
              /\ UNCHANGED tstatus
         ELSE LET r1 == Called(run, "restore_table_to_point_in_time", "restore", k) IN
              \E outcome \in {"accepted", "invalid_time", "client_error", "other_error"} :
                IF outcome = "accepted" /\ tstatus[k] = "ABSENT"
                  THEN /\ tstatus' = [tstatus EXCEPT ![k] = "CREATING"]
                       /\ run' = NextIdx([r1 EXCEPT !.answer = "accepted"])
                       /\ LoopGoto("poll_begin")
                  ELSE LET r2 == [r1 EXCEPT !.answer = IF outcome = "other_error" THEN "error"
                                                      ELSE "rejected"] IN
                       /\ UNCHANGED tstatus
                       /\ Goto(ExitBlock)
                       /\ run' = IF outcome = "other_error" THEN RaiseInBlock(r2)
                                 ELSE IF outcome = "invalid_time"
                                   THEN FailInBlock(Called(r2, "describe_table", "prod", k),
                                                    "Failed to initiate PITR restores")
                                 ELSE FailInBlock(r2, "Failed to initiate PITR restores")
    /\ UNCHANGED <<runFrame, start_tstatus, old_exists, prod>>

\* ------------------------------------------------- restore table naming
\* _configure_table_names: base_names, "-dev" appended in the dev environment
BaseName(key) ==
    CASE key = "quotes" -> "quote-lambda-tf-quotes"
      [] key = "user_likes" -> "quote-lambda-tf-user-likes"
      [] key = "user_views" -> "quote-lambda-tf-user-views"
ConfiguredTable(env, key) == IF env = "dev" THEN BaseName(key) \o "-dev" ELSE BaseName(key)

\* datetime.now().strftime('%Y%m%d%H%M%S'): the wall clock, whole seconds
NowToken(t) == t

\* f"{table}-restore-{timestamp}": the table, the separator, the token
NameOf(table, token) == <<table, "-restore-", token>>

\* _get_restore_table_names of the original variant: the timestamp is the wall
\* clock at the call
OriginalRestoreTableName(table, t) == NameOf(table, NowToken(t))

\* _get_restore_table_names of the current variant: the timestamp is
\* self.restore_point_timestamp (rpt), the wall clock at the call if it is not set
CurrentRestoreTableName(table, rpt, t) ==
    IF rpt = <<>> THEN NameOf(table, NowToken(t)) ELSE NameOf(table, rpt[1])

\* run() up to restore_tables = self._get_restore_table_names(): the current
\* variant sets self.restore_point_timestamp from the recovery point first
DeriveName(variant, table, r, t) ==
    IF variant = "original" THEN OriginalRestoreTableName(table, t)
    ELSE CurrentRestoreTableName(table, <<TokenOf(r)>>, t)

\* recovery points given to the naming: one wall-clock reading and the one an
\* hour later, as UTC, as +01:00 and without offset
NameRecoveryPoints ==
    { Aware(0 - 2 * Day, 0), Aware(0 - 2 * Day + 3600, 0), Aware(0 - 2 * Day + 3600, 3600),
      Naive(0 - 2 * Day + 3600) }

NameInit(variant, env, key, a, b) ==
    [ variant |-> variant,      \* which script runs: "current" or "original"
      table |-> ConfiguredTable(env, key),
      rps |-> <<a, b>>,         \* the recovery points of two invocations
      derived |-> {} ]          \* derivations made: [rp, at, name]

IdleNaming == NameInit("current", "prod", "quotes", BadInput, BadInput)

\* one derivation of the restore table name for recovery point i, at the
\* current wall clock
Derive(i) ==
    /\ Cardinality(naming.derived) < MaxDerivations
    /\ LET r == naming.rps[i]
           n == DeriveName(naming.variant, naming.table, r, now)
       IN naming' = [naming EXCEPT !.derived = @ \cup {[rp |-> r, at |-> now, name |-> n]}]
    /\ UNCHANGED <<clockVars, lockVars, runVars, swap, valid, orig, find>>


\* ---------------------------------------------- _validate_restore_point
\* Europe/Berlin in summer time (CEST), seconds east of UTC
SummerOffset == 7200
\* the offsets the local zone has over the year
ZoneOffsets == {BerlinOffset, SummerOffset}

\* a validation that tests the retention bound only
ValidateAgeOldOnly(age) == age <= MaxAge

\* if age > max_age: return False; if age < timedelta(0): return False;
\* return True
ValidateAge(age) ==
    IF age > MaxAge THEN FALSE
    ELSE IF age < 0 THEN FALSE
    ELSE TRUE

\* the instant a recovery point denotes: a reading without offset is a reading
\* of the local zone, whose offset at that date is zone
LocalInstantOf(r, zone) == r.wall - (IF r.kind = "naive" THEN zone ELSE r.off)

\* current variant: localize a reading without offset to Europe/Berlin, convert
\* to UTC, age = datetime.now(pytz.UTC) - restore_dt_utc
CurrentAge(r, zone_rp, t) == t - LocalInstantOf(r, zone_rp)

\* original variant: now = datetime.now(restore_dt.tzinfo) if restore_dt.tzinfo
\* else datetime.now(); age = now - restore_dt.  Without tzinfo both are
\* wall-clock readings and the difference is the difference of the readings:
\* datetime.now() is the local reading at t, with the offset in force at t
OriginalAge(r, zone_now, t) ==
    IF r.kind = "naive" THEN (t + zone_now) - r.wall
    ELSE t - (r.wall - r.off)

\* _validate_restore_point of either variant at wall clock t; input that does
\* not parse raises in isoparse: except Exception: return False
Validate(variant, r, zone_rp, zone_now, t) ==
    IF r.kind = "bad" THEN FALSE
    ELSE IF variant = "original" THEN ValidateAge(OriginalAge(r, zone_now, t))
    ELSE ValidateAge(CurrentAge(r, zone_rp, t))

\* the instants given to the validation, relative to the clock's start: around
\* the 35-day bound, well inside it, at the clock's start, and in the future
ValidInstants ==
    { 0 - 40 * Day, 0 - MaxAge - 1800, 0 - MaxAge - 1, 0 - MaxAge, 0 - MaxAge + 1800,
      0 - 2 * Day, 0, 1, 1800, Day }

\* the ways an instant is written: with offset +00:00, with offset +01:00, or
\* as a local reading without offset
Written(i, zone_rp) == {Aware(i, 0), Aware(i + 3600, 3600), Naive(i + zone_rp)}

ValidInit(variant, r, zone_rp, zone_now) ==
    [ variant |-> variant,      \* which script runs: "current" or "original"
      rp |-> r,                 \* restore_point_in_time, parsed
      zone_rp |-> zone_rp,      \* offset of the local zone at the recovery point
      zone_now |-> zone_now,    \* offset of the local zone at validation
      at |-> 0,                 \* the wall clock at validation
      result |-> "none" ]       \* what _validate_restore_point returned

IdleValid == ValidInit("current", BadInput, BerlinOffset, BerlinOffset)

\* one call of _validate_restore_point
ValidateCall ==
    /\ valid.result = "none"
    /\ valid' = [valid EXCEPT
                   !.at = now,
                   !.result = IF Validate(valid.variant, valid.rp, valid.zone_rp,
                                          valid.zone_now, now)
                              THEN "True" ELSE "False"]
    /\ UNCHANGED <<clockVars, lockVars, runVars, naming, swap, orig, find>>

\* _poll_restore_completion: start_time = time.time()
RunPollBegin ==
    /\ At("poll_begin")
    /\ run' = [run EXCEPT !.poll_start = now]
    /\ Goto("poll_test")
    /\ UNCHANGED <<runFrame, providerVars>>

\* a poll whose result run() does not test: after the deadline the run goes on
RunPollTestUntested ==
    /\ At("poll_test")
    /\ run' = [run EXCEPT !.all_active = TRUE, !.observed = {}, !.idx = 1]
    /\ IF now - run.poll_start < PollTimeout THEN Goto("poll_pass") ELSE Goto("verify")
    /\ UNCHANGED <<runFrame, providerVars>>

\* while time.time() - start_time < timeout_seconds: all_active = True ...
\* after the loop: return False -> FAILED "Restore operation timed out"
RunPollTest ==
    /\ At("poll_test")
    /\ IF now - run.poll_start < PollTimeout
         THEN /\ run' = [run EXCEPT !.all_active = TRUE, !.observed = {}, !.idx = 1,
                                    !.answer = ""]
              /\ Goto("poll_pass")
         ELSE /\ run' = FailInBlock(run, "Restore operation timed out")
              /\ Goto(ExitBlock)
    /\ UNCHANGED <<runFrame, providerVars>>

\* the provider's answer to describe_table of the restore table of key k:
\* TableStatus, or ResourceNotFoundException
DescribeAnswer(k) == IF tstatus[k] = "ABSENT" THEN "not_found" ELSE tstatus[k]

\* a poll pass that takes a table that is not found for no news
PollObserveSkipsMissing(r, k) ==
    IF tstatus[k] = "ACTIVE"
      THEN [r EXCEPT !.observed = @ \cup {k},
                     !.full_pass = @ \/ (r.observed \cup {k} = Keys)]
      ELSE IF tstatus[k] = "ABSENT" THEN r
      ELSE [r EXCEPT !.all_active = FALSE]

\* one describe_table of a poll pass: a status other than ACTIVE, or
\* ResourceNotFoundException, clears all_active
PollObserve(r, k) ==
    IF tstatus[k] = "ACTIVE"
      THEN [r EXCEPT !.observed = @ \cup {k},
                     !.full_pass = @ \/ (r.observed \cup {k} = Keys)]
      ELSE [r EXCEPT !.all_active = FALSE]

\* the for-loop of one poll pass, one iteration.  dry_run: continue.  Another
\* ClientError is raised again, caught by the function's except Exception:
\* return False
RunPollPass ==
    /\ At("poll_pass")
    /\ LET k == TableKeys[run.idx] IN
       IF run.dry_run
         THEN /\ run' = NextIdx(run)
              /\ LoopGoto("poll_end")
         ELSE LET r1 == Called(run, "describe_table", "restore", k) IN
              \E answered \in BOOLEAN :
                IF answered
                  THEN /\ run' = NextIdx(PollObserve([r1 EXCEPT !.answer = DescribeAnswer(k)], k))
                       /\ LoopGoto("poll_end")
                  ELSE /\ run' = FailInBlock([r1 EXCEPT !.answer = "error"],
                                            "Restore operation timed out")
                       /\ Goto(ExitBlock)
    /\ UNCHANGED <<runFrame, providerVars>>

\* a poll that returns once any table has been seen ACTIVE
PollPassReadyAny(r) == r.all_active \/ r.observed # {}
\* if all_active: return True
PollPassReady(r) == r.all_active

\* a poll that returns True after its first pass, whatever the pass saw
RunPollEndFirstPass ==
    /\ At("poll_end")
    /\ run' = [run EXCEPT !.idx = 1, !.answer = ""]
    /\ Goto("verify")
    /\ UNCHANGED <<runFrame, providerVars>>

\* end of a pass: return True, or time.sleep(poll_interval) and test again
RunPollEnd ==
    /\ At("poll_end")
    /\ run' = [run EXCEPT !.idx = 1, !.answer = ""]
    /\ IF PollPassReady(run) THEN Goto("verify") ELSE Goto("poll_test")
    /\ UNCHANGED <<runFrame, providerVars>>

\* a scan of a restore table is answered only while the table is ACTIVE
Readable(k) == tstatus[k] = "ACTIVE"

\* how the restored count of a table compares with the original count
CountComparisons == {"equal", "lower", "higher"}

\* _verify_item_counts after the comparison of one table: restore_count >
\* original_count logs a warning, < and == log an info line; no branch
\* returns, the loop goes on
CountsPass(cmp) ==
    IF cmp = "higher" THEN TRUE
    ELSE IF cmp = "lower" THEN TRUE
    ELSE TRUE

\* _verify_item_counts, one iteration.  dry_run: continue.  _count_items of the
\* original and of the restore table; the three outcomes of the comparison are
\* only logged; a ClientError of a scan is raised again and caught by the
\* function's except Exception: return False -> FAILED "Item count mismatch"
RunVerify ==
    /\ At("verify")
    /\ LET k == TableKeys[run.idx] IN
       IF run.dry_run
         THEN /\ run' = NextIdx(run)
              /\ LoopGoto("swap_clear")
         ELSE \E outcome \in {"counted", "original_error", "restore_error"},
                 cmp \in CountComparisons :
                LET r1 == Called(run, "scan", "prod", k)
                    r2 == Called(r1, "scan", "restore", k)
                IN IF outcome = "counted" /\ Readable(k) /\ CountsPass(cmp)
                     THEN /\ run' = NextIdx(r2)
                          /\ LoopGoto("swap_clear")
                     ELSE /\ run' = FailInBlock(
                                      [IF outcome = "original_error" THEN r1 ELSE r2
                                         EXCEPT !.answer = IF outcome = "counted" /\ Readable(k)
                                                             THEN cmp ELSE "error"],
                                      "Item count mismatch")
                          /\ Goto(ExitBlock)
    /\ UNCHANGED <<runFrame, providerVars>>

\* a swap loop that logs a failed table and goes on with the next one
RunSwapClearGoesOn ==
    /\ At("swap_clear")
    /\ LET k == TableKeys[run.idx] IN
       IF run.dry_run
         THEN /\ run' = NextIdx(run)
              /\ LoopGoto("cleanup")
              /\ UNCHANGED prod
         ELSE LET r1 == Called(run, "describe_table", "prod", k)
                  r2 == Called(r1, "scan", "prod", k)
                  r3 == Called(r2, "batch_write_item", "prod", k)
              IN \E outcome \in {"cleared", "failed_midway"} :
                   IF outcome = "cleared"
                     THEN /\ prod' = [prod EXCEPT ![k] = "empty"]
                          /\ run' = r3
                          /\ Goto("swap_copy")
                     ELSE /\ prod' = [prod EXCEPT ![k] = "partly_cleared"]
                          /\ run' = NextIdx(r3)
                          /\ LoopGoto("cleanup")
    /\ UNCHANGED <<runFrame, tstatus, start_tstatus, old_exists>>

\* _swap_data, one iteration, first half: dry_run: continue; otherwise
\* _swap_table_data -> _clear_table(original): describe_table, scan, batches of
\* deletes.  An exception is raised again, _swap_table_data returns False,
\* _swap_data returns False -> FAILED "Data swap failed".  (SpecSwap follows
\* the rows; here the table is original, partly_cleared, empty, partly_restored
\* or restored.)
RunSwapClear ==
    /\ At("swap_clear")
    /\ LET k == TableKeys[run.idx] IN
       IF run.dry_run
         THEN /\ run' = NextIdx(run)
              /\ LoopGoto("cleanup")
              /\ UNCHANGED prod
         ELSE LET r1 == Called(run, "describe_table", "prod", k)
                  r2 == Called(r1, "scan", "prod", k)
                  r3 == Called(r2, "batch_write_item", "prod", k)
              IN \E outcome \in {"cleared", "failed_before", "failed_midway"} :
                   IF outcome = "cleared"
                     THEN /\ prod' = [prod EXCEPT ![k] = "empty"]
                          /\ run' = r3
                          /\ Goto("swap_copy")
                     ELSE /\ prod' = IF outcome = "failed_midway"
                                       THEN [prod EXCEPT ![k] = "partly_cleared"]
                                       ELSE prod
                          /\ run' = FailInBlock(IF outcome = "failed_midway" THEN r3 ELSE r1,
                                                "Data swap failed")
                          /\ Goto(ExitBlock)
    /\ UNCHANGED <<runFrame, tstatus, start_tstatus, old_exists>>

\* a _swap_data that deletes each restore table as soon as its production table
\* is refilled
RunSwapCopyDeletesEach ==
    /\ At("swap_copy")
    /\ LET k == TableKeys[run.idx]
           r1 == Called(run, "scan", "restore", k)
           r2 == Called(r1, "batch_write_item", "prod", k)
           r3 == Called(r2, "delete_table", "restore", k)
       IN \E outcome \in {"copied", "failed_before"} :
            IF outcome = "copied" /\ Readable(k)
              THEN /\ prod' = [prod EXCEPT ![k] = "restored"]
                   /\ tstatus' = [tstatus EXCEPT ![k] = "ABSENT"]
                   /\ run' = NextIdx(r3)
                   /\ IF run.idx < NumTables THEN Goto("swap_clear") ELSE Goto("cleanup")
              ELSE /\ UNCHANGED <<prod, tstatus>>
                   /\ run' = FailInBlock(r1, "Data swap failed")
                   /\ Goto(ExitBlock)
    /\ UNCHANGED <<runFrame, start_tstatus, old_exists>>

\* _swap_data, one iteration, second half: _copy_table_data(restore, original):
\* scan of the restore table, batches of puts into the original table; then
\* the loop of _swap_data goes on with the next table
RunSwapCopy ==
    /\ At("swap_copy")
    /\ LET k == TableKeys[run.idx]
           r1 == Called(run, "scan", "restore", k)
           r2 == Called(r1, "batch_write_item", "prod", k)
       IN \E outcome \in {"copied", "failed_before", "failed_midway"} :
            IF outcome = "copied" /\ Readable(k)
              THEN /\ prod' = [prod EXCEPT ![k] = "restored"]
                   /\ run' = NextIdx(r2)
                   /\ IF run.idx < NumTables THEN Goto("swap_clear") ELSE Goto("cleanup")
              ELSE /\ prod' = IF outcome = "failed_midway" /\ Readable(k)
                                THEN [prod EXCEPT ![k] = "partly_restored"]
                                ELSE prod
                   /\ run' = FailInBlock(IF outcome = "failed_midway" /\ Readable(k)
                                           THEN r2 ELSE r1,
                                         "Data swap failed")
                   /\ Goto(ExitBlock)
    /\ UNCHANGED <<runFrame, tstatus, start_tstatus, old_exists>>

\* _delete_restore_tables, one iteration.  dry_run: continue.  delete_table; a
\* ClientError is logged and all_deleted = False; another exception ends the
\* loop: return False.  run() only logs a False result, and the with-block
\* ends.
RunCleanup ==
    /\ At("cleanup")
    /\ LET k == TableKeys[run.idx]
           leave(r) == IF run.idx < NumTables THEN NextIdx(r)
                       ELSE [NextIdx(r) EXCEPT !.pending = "completed"]
           r1 == Called(run, "delete_table", "restore", k)
       IN IF run.dry_run
            THEN /\ run' = leave(run)
                 /\ UNCHANGED tstatus
                 /\ LoopGoto(ExitBlock)
            ELSE \E outcome \in {"deleted", "client_error", "other_error"} :
                   /\ tstatus' = IF outcome = "deleted" /\ tstatus[k] # "ABSENT"
                                   THEN [tstatus EXCEPT ![k] = "ABSENT"]
                                   ELSE tstatus
                   /\ IF outcome = "other_error"
                        THEN /\ run' = [r1 EXCEPT !.idx = 1, !.pending = "completed"]
                             /\ Goto(ExitBlock)
                        ELSE /\ run' = leave(r1)
                             /\ LoopGoto(ExitBlock)
    /\ UNCHANGED <<runFrame, start_tstatus, old_exists, prod>>

\* a run() that records FAILED after every block that did not complete
RunFinishWritesAgain ==
    /\ At("released")
    /\ run' = IF run.pending = "completed"
                THEN [Write(run, "COMPLETED", "") EXCEPT !.ret = "True"]
              ELSE [Write(run, "FAILED", "exception") EXCEPT !.ret = "False"]
    /\ Goto("done")
    /\ UNCHANGED <<runFrame, providerVars>>

\* after __exit__: the block ended -> _update_status("COMPLETED"), return True;
\* it was left by return False -> run() returns False; by an exception ->
\* except Exception: _update_status("FAILED", str(e)), return False
RunFinish ==
    /\ At("released")
    /\ run' = IF run.pending = "completed"
                THEN [Write(run, "COMPLETED", "") EXCEPT !.ret = "True"]
              ELSE IF run.pending = "exception"
                THEN [Write(run, "FAILED", "exception") EXCEPT !.ret = "False"]
              ELSE [run EXCEPT !.ret = "False"]
    /\ Goto("done")
    /\ UNCHANGED <<runFrame, providerVars>>

\* ----------------------------------------------------------------- main
\* an exit status that does not look at the result of run()
ExitCodeAlwaysZero(success) == 0
\* sys.exit(0 if success else 1)
ExitCodeOf(success) == IF success THEN 0 ELSE 1

\* main: success = restore.run(args.restore_point); sys.exit(...)
MainExit ==
    /\ At("done")
    /\ run' = [run EXCEPT !.exit_code = ExitCodeOf(run.ret = "True")]
    /\ Goto("exited")
    /\ UNCHANGED <<runFrame, providerVars>>

\* main: the constructor raises (boto3.client) before run() is called:
\* except Exception: sys.exit(1)
MainFatal ==
    /\ At("begin")
    /\ run' = [run EXCEPT !.exit_code = 1]
    /\ Goto("exited")
    /\ UNCHANGED <<runFrame, providerVars>>

\* ------------------------------------------------------------- provider
\* the steps of run() that read the status of a restore table
StatusReadPcs == {"check_existing", "initiate", "poll_pass", "verify", "swap_copy", "cleanup"}

\* a restore in flight completes: the restore table becomes ACTIVE.  Only the
\* steps of StatusReadPcs see the status, so a completion is taken just before
\* one of them.
ProviderActivates(k) ==
    /\ pc[Runner] \in StatusReadPcs
    /\ tstatus[k] = "CREATING"
    /\ tstatus' = [tstatus EXCEPT ![k] = "ACTIVE"]
    /\ UNCHANGED <<clockVars, lockVars, auxVars, run, start_tstatus, old_exists, prod>>

\* the steps of run() that read the clock
ClockReadPcs == {"validate", "enter_lock", "acq_loop", "acq_open", "stale_stat",
                 "poll_begin", "poll_test"}

\* the clock as run() sees it: an advance is taken just before a step that
\* reads the clock
RunTick ==
    /\ pc[Runner] \in ClockReadPcs
    /\ Tick

\* the restore tables of this recovery point when the run starts: none, all
\* ready, all in flight, one ready and the rest missing, one of each
AllOf(s) == [k \in Keys |-> s]
StartTableStates ==
    { AllOf("ABSENT"), AllOf("ACTIVE"), AllOf("CREATING"),
      [AllOf("ABSENT") EXCEPT !["quotes"] = "ACTIVE"],
      [AllOf("CREATING") EXCEPT !["quotes"] = "ACTIVE", !["user_views"] = "ABSENT"] }
\* the lock file when the run starts: none, another run's fresh marker, a
\* marker older than the staleness bound
StartMarkers == {m \in InitialMarkers : m.removable}
\* restore tables of other recovery points left by earlier runs
OldTableSets == {{}, {"quotes", "user_views"}}


\* ------------------------------------------- _swap_table_data, row by row
\* A table is the set of its keys (integers, in scan order); a row of the
\* production table carries the original item ("old") or the item of the
\* restore table ("new").
Min(a, b) == IF a < b THEN a ELSE b

\* the j-th key of s in scan order
Nth(s, j) == CHOOSE x \in s : Cardinality({y \in s : y < x}) = j - 1

\* scan(TableName, ExclusiveStartKey=cursor): the Items of one page, at most
\* limit of the keys after the cursor (cursor 0: no ExclusiveStartKey)
ScanItems(keys, cursor, limit) ==
    LET rest == {k \in keys : k > cursor}
        n == Min(limit, Cardinality(rest))
    IN [j \in 1..n |-> Nth(rest, j)]

\* LastEvaluatedKey of that page, 0 when the response has none: present when
\* keys remain after the page, and, as the provider chooses (more), after a
\* full page that happens to end the table
ScanLastKey(keys, cursor, limit, more) ==
    LET page == ScanItems(keys, cursor, limit)
        last == IF Len(page) = 0 THEN cursor ELSE page[Len(page)]
    IN IF {k \in keys : k > last} # {} THEN last
       ELSE IF more /\ Len(page) = limit THEN last
       ELSE 0

\* batch_size = 25
BatchSize == 25
\* a slice without upper end: items[i:]
ChunkToEnd(items, i) == SubSeq(items, i + 1, Len(items))
\* items[i:i + batch_size]
Chunk(items, i) == SubSeq(items, i + 1, Min(i + BatchSize, Len(items)))
Elems(s) == {s[j] : j \in 1..Len(s)}

\* what batch_write_item leaves unapplied and reports in UnprocessedItems: the
\* response is not read.  Nothing, or the last request of the batch.
Unprocessed(batch, some) == IF some THEN {batch[Len(batch)]} ELSE {}

SwapInit(old, restored, limit) ==
    [ pc |-> "clear_describe",
      prod_old |-> old,        \* keys of the production table holding the original item
      prod_new |-> {},         \* keys of the production table holding the restored item
      restore |-> restored,    \* keys of the restore table
      limit |-> limit,         \* items per scan page, the provider's choice
      items |-> <<>>,          \* items of the current page (their keys)
      i |-> 0,                 \* i of for i in range(0, len(items), batch_size)
      last_key |-> 0,          \* scan_response['LastEvaluatedKey'], 0 if absent
      dropped |-> 0,           \* batches that came back with UnprocessedItems
      sizes |-> {},            \* sizes of the batches issued
      failed_at |-> "none",    \* the call that raised, if one did
      result |-> "none" ]      \* return value of _swap_table_data

IdleSwap == [SwapInit({}, {}, 1) EXCEPT !.pc = "idle"]

SwapAt(l) == swap.pc = l
\* except Exception: raise, up to _swap_table_data: return False
SwapFailed(s) == [s EXCEPT !.pc = "done", !.result = "False", !.failed_at = s.pc]

\* _clear_table: response = self.dynamodb.describe_table(TableName=table_name)
SwapClearDescribe ==
    /\ SwapAt("clear_describe")
    /\ \E ok \in BOOLEAN :
         swap' = IF ok THEN [swap EXCEPT !.pc = "clear_scan", !.last_key = 0]
                 ELSE SwapFailed(swap)
    /\ UNCHANGED <<clockVars, lockVars, runVars, naming, valid, orig, find>>

\* one page: scan_response = scan(...); items = scan_response.get('Items', [])
Scanned(s, keys, more, next) ==
    [s EXCEPT !.items = ScanItems(keys, s.last_key, s.limit),
              !.last_key = ScanLastKey(keys, s.last_key, s.limit, more),
              !.i = 0,
              !.pc = next]

\* _clear_table: the first scan, and the scans of "while 'LastEvaluatedKey' in
\* scan_response"
SwapClearScan ==
    /\ SwapAt("clear_scan")
    /\ \E ok \in BOOLEAN, more \in BOOLEAN :
         swap' = IF ok
                   THEN Scanned(swap, swap.prod_old \cup swap.prod_new, more, "clear_batch")
                   ELSE SwapFailed(swap)
    /\ UNCHANGED <<clockVars, lockVars, runVars, naming, valid, orig, find>>

\* the for-loop over a page has ended: the next page if the response had a
\* LastEvaluatedKey, else what follows the while-loop
AfterPage(s, again, after) ==
    IF s.last_key # 0 THEN [s EXCEPT !.pc = again] ELSE [s EXCEPT !.pc = after, !.last_key = 0]

\* the rows of the production table after a batch of deletes
Deleted(s, applied) ==
    [s EXCEPT !.prod_old = @ \ applied, !.prod_new = @ \ applied]
\* the rows of the production table after a batch of puts of restore items
Put(s, applied) ==
    [s EXCEPT !.prod_old = @ \ applied, !.prod_new = @ \cup applied]

Issued(s, batch, some) ==
    [s EXCEPT !.i = @ + BatchSize,
              !.sizes = @ \cup {Len(batch)},
              !.dropped = IF some THEN @ + 1 ELSE @]

\* _clear_table, one iteration of for i in range(0, len(items), batch_size):
\* delete_requests of the batch; if delete_requests: batch_write_item
SwapClearBatch ==
    /\ SwapAt("clear_batch")
    /\ IF swap.i >= Len(swap.items)
         THEN swap' = AfterPage(swap, "clear_scan", "copy_scan")
         ELSE LET batch == Chunk(swap.items, swap.i) IN
              \E ok \in BOOLEAN, some \in BOOLEAN :
                /\ some => swap.dropped < MaxUnprocessed
                /\ swap' = IF ok
                             THEN Issued(Deleted(swap, Elems(batch) \ Unprocessed(batch, some)),
                                         batch, some)
                             ELSE SwapFailed(swap)
    /\ UNCHANGED <<clockVars, lockVars, runVars, naming, valid, orig, find>>

\* _copy_table_data: the first scan of the restore table and the scans of the
\* while-loop
SwapCopyScan ==
    /\ SwapAt("copy_scan")
    /\ \E ok \in BOOLEAN, more \in BOOLEAN :
         swap' = IF ok THEN Scanned(swap, swap.restore, more, "copy_batch")
                 ELSE SwapFailed(swap)
    /\ UNCHANGED <<clockVars, lockVars, runVars, naming, valid, orig, find>>

\* _copy_table_data, one iteration of the for-loop: put_requests of the batch;
\* if put_requests: batch_write_item.  After the last page: return
\* items_written, and _swap_table_data returns True
SwapCopyBatch ==
    /\ SwapAt("copy_batch")
    /\ IF swap.i >= Len(swap.items)
         THEN swap' = IF swap.last_key # 0 THEN [swap EXCEPT !.pc = "copy_scan"]
                      ELSE [swap EXCEPT !.pc = "done", !.result = "True"]
         ELSE LET batch == Chunk(swap.items, swap.i) IN
              \E ok \in BOOLEAN, some \in BOOLEAN :
                /\ some => swap.dropped < MaxUnprocessed
                /\ swap' = IF ok
                             THEN Issued(Put(swap, Elems(batch) \ Unprocessed(batch, some)),
                                         batch, some)
                             ELSE SwapFailed(swap)
    /\ UNCHANGED <<clockVars, lockVars, runVars, naming, valid, orig, find>>

\* row counts of the tables given to the swap
RowCounts == {0, 1, BatchSize, BatchSize + 1, MaxRows}
\* scan page sizes: a few items, and more than one batch
PageLimits == {2, BatchSize + 1}

\* ------------------------------------------------ run(), original variant
\* the fields and locals of one run() of the original variant.  RestoreLock is
\* the same class in both variants; here acquire() succeeds or times out.
\* items a scan response covers (1 MB of data), in rows of the modelled tables
CountPage == 2

\* _count_items: one scan(Select='COUNT'), response['Count']: the items of the
\* first page only; a LastEvaluatedKey in the response is not followed
CountItems(rows) == Min(rows, CountPage)

\* rows of the original table and of the restore table
Rows(o, r) == [original |-> o, restore |-> r]
\* item counts at verification: equal everywhere; user_likes differs within
\* one scan page; user_likes differs beyond the first scan page
CountProfiles ==
    { [k \in Keys |-> Rows(2, 2)],
      [[k \in Keys |-> Rows(2, 2)] EXCEPT !["user_likes"] = Rows(2, 1)],
      [[k \in Keys |-> Rows(2, 2)] EXCEPT !["user_likes"] = Rows(CountPage + 2, CountPage + 1)] }

\* if original_count != restore_count, per table
CountMismatch(c) == CountItems(c.original) # CountItems(c.restore)

OrigInit(dry, r, counts) ==
    [ pc |-> "begin",
      dry_run |-> dry,          \* self.dry_run
      rp |-> r,                 \* restore_point_in_time, parsed
      counts |-> counts,        \* rows of the original and of the restore table, per key
      init_token |-> <<>>,      \* timestamp of the names restores were initiated with
      token |-> <<>>,           \* timestamp of restore_tables in run()
      made |-> AllOf("ABSENT"), \* status of the restore tables initiated, per key
      poll_start |-> 0,         \* start_time of _poll_restore_completion
      held |-> FALSE,           \* inside the with RestoreLock block
      faults |-> FALSE,         \* some provider call answered with an error
      prod |-> AllOf("original"), \* content of the production table, per key
      status_log |-> <<>>,      \* what _update_status wrote
      ret |-> "none",           \* return value of run()
      calls |-> {} ]            \* provider calls issued: [op, space, key]

IdleOrig == [OrigInit(FALSE, BadInput, [k \in Keys |-> Rows(0, 0)]) EXCEPT !.pc = "idle"]

origFrame == <<lockVars, runVars, naming, swap, valid, find>>

\* a stage returned False, or an exception reached run()'s except handler:
\* _update_status("FAILED", reason); return False (through __exit__ when held)
OrigFail(o, reason) ==
    [Write(o, "FAILED", reason) EXCEPT !.ret = "False", !.held = FALSE, !.pc = "done"]

\* the provider's answer to describe_table of the restore table of key k under
\* the names of run(): the table initiated, if the names are the same
OrigDescribe(o, k) == IF o.token = o.init_token THEN o.made[k] ELSE "ABSENT"

\* _update_status("INITIALIZING"); _validate_restore_point first
OrigValidate ==
    /\ orig.pc = "begin"
    /\ LET o == Write(orig, "INITIALIZING", "") IN
       orig' = IF Validate("original", orig.rp, BerlinOffset, BerlinOffset, now)
                 THEN [o EXCEPT !.pc = "lock"]
                 ELSE OrigFail(o, "Invalid restore point")
    /\ UNCHANGED <<clockVars, origFrame>>

\* with RestoreLock(self.lock_file): __enter__ raises RuntimeError when
\* acquire() returns False
OrigEnterLock ==
    /\ orig.pc = "lock"
    /\ \E got \in BOOLEAN :
         orig' = IF got THEN [orig EXCEPT !.pc = "initiate", !.held = TRUE]
                 ELSE OrigFail(orig, "Could not acquire restore lock")
    /\ UNCHANGED <<clockVars, origFrame>>

\* _initiate_pitr_restores: restore_tables = self._get_restore_table_names(),
\* then restore_table_to_point_in_time per table; dry_run: continue.  A
\* ClientError: return False; another exception reaches run()'s handler.
OrigInitiate ==
    /\ orig.pc = "initiate"
    /\ LET o == [orig EXCEPT !.init_token = <<NowToken(now)>>]
           c(o1, k) == [o1 EXCEPT !.calls = @ \cup
                          {Call("restore_table_to_point_in_time", "restore", k)}]
       IN IF orig.dry_run
            THEN orig' = [o EXCEPT !.pc = "names"]
            ELSE \E outcome \in {"accepted", "client_error", "other_error"} :
                   orig' = IF outcome = "accepted"
                             THEN [c(c(c(o, "quotes"), "user_likes"), "user_views")
                                     EXCEPT !.made = AllOf("CREATING"), !.pc = "names"]
                           ELSE OrigFail([c(o, "quotes") EXCEPT !.faults = TRUE],
                                         IF outcome = "client_error"
                                           THEN "Failed to initiate PITR restores"
                                           ELSE "exception")
    /\ UNCHANGED <<clockVars, origFrame>>

\* restore_tables = self._get_restore_table_names() in run(), then
\* _poll_restore_completion: start_time = time.time()
OrigPollBegin ==
    /\ orig.pc = "names"
    /\ orig' = [orig EXCEPT !.token = <<NowToken(now)>>, !.poll_start = now, !.pc = "poll"]
    /\ UNCHANGED <<clockVars, origFrame>>

\* one turn of the while loop of _poll_restore_completion: the test of the
\* deadline and a pass over the three tables.  ResourceNotFoundException
\* counts as not ACTIVE; another ClientError is raised again: return False.
OrigPoll ==
    /\ orig.pc = "poll"
    /\ IF now - orig.poll_start >= PollTimeout
         THEN orig' = OrigFail(orig, "Restore operation timed out")
         ELSE IF orig.dry_run
         THEN orig' = [orig EXCEPT !.pc = "verify"]
         ELSE \E answered \in BOOLEAN :
                LET o == [orig EXCEPT !.calls = @ \cup
                            {Call("describe_table", "restore", k) : k \in Keys}]
                IN orig' = IF ~answered
                             THEN OrigFail([o EXCEPT !.faults = TRUE],
                                           "Restore operation timed out")
                           ELSE IF \A k \in Keys : OrigDescribe(orig, k) = "ACTIVE"
                             THEN [o EXCEPT !.pc = "verify"]
                           ELSE o
    /\ UNCHANGED <<clockVars, origFrame>>

\* _verify_item_counts, strict, the whole loop: per table the two counts, and
\* original_count != restore_count: return False; an error of a count is
\* raised again and caught: return False
OrigVerify ==
    /\ orig.pc = "verify"
    /\ IF orig.dry_run
         THEN orig' = [orig EXCEPT !.pc = "swap"]
         ELSE \E counted \in BOOLEAN :
                LET bad == {k \in Keys : CountMismatch(orig.counts[k])}
                    \* the tables the loop reaches
                    upto == IF ~counted THEN {TableKeys[1]}
                            ELSE IF bad = {} THEN Keys
                            ELSE {k \in Keys : KeyIndex(k) <= KeyIndex(FirstOf(bad))}
                    o == [orig EXCEPT !.calls = @ \cup
                            {Call("scan", sp, k) : sp \in {"prod", "restore"}, k \in upto}]
                IN orig' = IF ~counted
                             THEN OrigFail([o EXCEPT !.faults = TRUE], "Item count mismatch")
                           ELSE IF bad # {}
                             THEN OrigFail(o, "Item count mismatch")
                           ELSE [o EXCEPT !.pc = "swap"]
    /\ UNCHANGED <<clockVars, origFrame>>

\* _swap_data -> _swap_table_data -> _clear_table of the first table:
\* describe_table, scan, then "with self.dynamodb.batch_write_item() as batch":
\* the client call without RequestItems raises before any row is deleted, for
\* every content of the table; _clear_table raises again, _swap_table_data
\* returns False, _swap_data returns False
OrigSwap ==
    /\ orig.pc = "swap"
    /\ IF orig.dry_run
         THEN orig' = [orig EXCEPT !.pc = "cleanup"]
         ELSE orig' = OrigFail([orig EXCEPT !.calls = @ \cup
                                  {Call("describe_table", "prod", "quotes"),
                                   Call("scan", "prod", "quotes")}],
                               "Data swap failed")
    /\ UNCHANGED <<clockVars, origFrame>>

\* _delete_restore_tables (dry_run: continue; a ClientError is logged), the
\* end of the with-block, _update_status("COMPLETED"), return True
OrigCleanup ==
    /\ orig.pc = "cleanup"
    /\ \E deleted \in SUBSET Keys :
         LET o == IF orig.dry_run THEN orig
                  ELSE [orig EXCEPT
                          !.calls = @ \cup {Call("delete_table", "restore", k) : k \in Keys},
                          !.faults = @ \/ deleted # Keys,
                          !.made = [k \in Keys |-> IF k \in deleted /\ orig.token = orig.init_token
                                                     THEN "ABSENT" ELSE @[k]]]
         IN (orig.dry_run => deleted = Keys) /\
            orig' = [Write(o, "COMPLETED", "") EXCEPT !.ret = "True", !.held = FALSE,
                                                       !.pc = "done"]
    /\ UNCHANGED <<clockVars, origFrame>>

\* a restore in flight completes while the run polls
OrigProviderActivates(k) ==
    /\ orig.pc = "poll"
    /\ orig.made[k] = "CREATING"
    /\ orig' = [orig EXCEPT !.made[k] = "ACTIVE"]
    /\ UNCHANGED <<clockVars, origFrame>>

\* the clock as run() sees it: an advance is taken just before a step that
\* reads the clock
OrigTick ==
    /\ orig.pc \in {"begin", "initiate", "names", "poll"}
    /\ Tick
\* ------------------------------------- old restore tables, on table names
\* A table name is the sequence of its parts between the hyphens.
Parts(key) ==
    CASE key = "quotes" -> <<"quote", "lambda", "tf", "quotes">>
      [] key = "user_likes" -> <<"quote", "lambda", "tf", "user", "likes">>
      [] key = "user_views" -> <<"quote", "lambda", "tf", "user", "views">>

\* self.tables[key]: the base name, "-dev" appended in the dev environment
TableParts(env, key) == IF env = "dev" THEN Parts(key) \o <<"dev">> ELSE Parts(key)

\* f"{self.tables[key]}-restore-{timestamp}"
RestoreParts(env, key, token) == TableParts(env, key) \o <<"restore", token>>

\* table_name.startswith(f"{original_table}-restore-")
StartsWithRestore(name, table) ==
    /\ Len(name) > Len(table) + 1
    /\ SubSeq(name, 1, Len(table) + 1) = table \o <<"restore">>

\* a table of the account: of which environment and key, production or
\* restore table, and for a restore table the timestamp of its name
Table(env, key, kind, token) == [env |-> env, key |-> key, kind |-> kind, token |-> token]
NameOfTable(t) ==
    IF t.kind = "prod" THEN TableParts(t.env, t.key)
    ELSE RestoreParts(t.env, t.key, t.token)

Envs == {"dev", "prod"}
\* the timestamp of the current recovery point, the timestamp of an earlier
\* one, and a suffix that is no timestamp
RestoreTokens == {"20250102030405", "20241231235959", "manual"}
CurrentToken == "20250102030405"

ProductionTables == {Table(e, k, "prod", "") : e \in Envs, k \in Keys}
\* restore tables that may be in the account when the run starts
RestoreCandidates ==
    {Table(e, k, "restore", tok) : e \in Envs, k \in {"quotes", "user_likes"},
                                   tok \in RestoreTokens}

\* an old-table test that looks for "restore" anywhere in the name
FindOldRestoreTablesAnyEnv(env, names, current) ==
    {n \in names : (\E i \in 1..Len(n) : n[i] = "restore") /\ n \notin current}

\* _find_old_restore_tables: of the listed names, those that start with
\* "<table>-restore-" for a table of self.tables and are not current restore
\* names
FindOldRestoreTablesByName(env, names, current) ==
    {n \in names : (\E k \in Keys : StartsWithRestore(n, TableParts(env, k)))
                   /\ n \notin current}

\* another run of the same environment that holds the lock and works from its
\* restore tables: the timestamp of its recovery point, "" when there is none
HolderTokens == {"", CurrentToken, "20241231235959"}
\* the stages of the with-block in which a run reads its restore tables
RestoreUsePcs == {"in_poll", "in_verify", "in_swap"}
HolderTables(env, token) ==
    IF token = "" THEN {} ELSE {Table(env, k, "restore", token) : k \in Keys}

FindInit(env, tables, holder) ==
    [ pc |-> "find",
      env |-> env,               \* self.environment
      tables |-> tables,         \* the tables the account holds
      holder |-> holder,         \* recovery point of the run that holds the lock
      old |-> {},                \* old_restore_tables still to delete
      deleted |-> {} ]           \* names given to delete_table

IdleFind == [FindInit("prod", {}, "") EXCEPT !.pc = "idle"]

\* current_table_names = set(current_restore_tables.values())
CurrentNames(env) == {RestoreParts(env, k, CurrentToken) : k \in Keys}

\* old_restore_tables = self._find_old_restore_tables(restore_tables);
\* list_tables fails: []
FindOld ==
    /\ find.pc = "find"
    /\ \E listed \in BOOLEAN :
         LET names == IF listed THEN {NameOfTable(t) : t \in find.tables} ELSE {}
             old == FindOldRestoreTablesByName(find.env, names, CurrentNames(find.env))
         IN find' = [find EXCEPT !.old = old,
                                 !.pc = IF old = {} THEN "done" ELSE "cleanup"]
    /\ UNCHANGED <<clockVars, lockVars, runVars, naming, swap, valid, orig>>

\* _cleanup_existing_restore_tables, one iteration: delete_table(table_name);
\* a ClientError is logged
CleanupOld ==
    /\ find.pc = "cleanup"
    /\ \E n \in find.old, accepted \in BOOLEAN :
         find' = [find EXCEPT
                    !.old = @ \ {n},
                    !.deleted = @ \cup {n},
                    !.tables = IF accepted THEN {t \in @ : NameOfTable(t) # n} ELSE @,
                    !.pc = IF find.old = {n} THEN "done" ELSE "cleanup"]
    /\ UNCHANGED <<clockVars, lockVars, runVars, naming, swap, valid, orig>>
\* ---------------------------------------------------------- specifications
IdleRun == RunInit(FALSE, BadInput)
NoTables == AllOf("ABSENT")
Untouched == [k \in Keys |-> "original"]

InitLock ==
    /\ now = 0
    /\ ticks = 0
    /\ marker \in InitialMarkers
    /\ pc = [p \in Procs |-> "enter_lock"]
    /\ start_time = [p \in Procs |-> 0]
    /\ lock_acquired = [p \in Procs |-> FALSE]
    /\ created = [p \in Procs |-> -1]
    /\ run = IdleRun
    /\ tstatus = NoTables
    /\ start_tstatus = NoTables
    /\ old_exists = {}
    /\ prod = Untouched
    /\ find = IdleFind
    /\ naming = IdleNaming
    /\ swap = IdleSwap
    /\ valid = IdleValid
    /\ orig = IdleOrig

NextLock ==
    \/ Tick
    \/ \E p \in Procs : AcquireStart(p)
    \/ \E p \in Procs : AcquireLoopTest(p)
    \/ \E p \in Procs : AcquireOpen(p)
    \/ \E p \in Procs : StaleExists(p)
    \/ \E p \in Procs : StaleStat(p)
    \/ \E p \in Procs : AcquireUnlink(p)
    \/ \E p \in Procs : AcquireSleep(p)
    \/ \E p \in Procs : ReleaseTest(p)
    \/ \E p \in Procs : ReleaseUnlink(p)
    \/ \E p \in Procs : EnterFailed(p)
    \/ \E p \in Procs : LockedAdvance(p)
    \/ \E p \in Procs : RunReturn(p)

SpecLock == InitLock /\ [][NextLock]_vars

InitRun ==
    /\ now = 0
    /\ ticks = 0
    /\ marker \in StartMarkers
    /\ pc = [p \in Procs |-> IF p = Runner THEN "begin" ELSE "idle"]
    /\ start_time = [p \in Procs |-> 0]
    /\ lock_acquired = [p \in Procs |-> FALSE]
    /\ created = [p \in Procs |-> -1]
    /\ \E dry \in BOOLEAN, r \in RunRecoveryPoints : run = RunInit(dry, r)
    /\ tstatus \in StartTableStates
    /\ start_tstatus = tstatus
    /\ old_exists \in OldTableSets
    /\ prod = Untouched
    /\ find = IdleFind
    /\ naming = IdleNaming
    /\ swap = IdleSwap
    /\ valid = IdleValid
    /\ orig = IdleOrig

NextRun ==
    \/ RunTick
    \/ MainFatal
    \/ MainExit
    \/ RunBegin
    \/ RunParse
    \/ RunCheckExisting
    \/ RunDecide
    \/ RunFindOld
    \/ RunCleanupOld
    \/ RunValidate
    \/ AcquireStart(Runner)
    \/ AcquireLoopTest(Runner)
    \/ AcquireOpen(Runner)
    \/ StaleExists(Runner)
    \/ StaleStat(Runner)
    \/ AcquireUnlink(Runner)
    \/ AcquireSleep(Runner)
    \/ RunEnterFailed
    \/ RunEnterBlock
    \/ RunInitiate
    \/ RunPollBegin
    \/ RunPollTest
    \/ RunPollPass
    \/ RunPollEnd
    \/ RunVerify
    \/ RunSwapClear
    \/ RunSwapCopy
    \/ RunCleanup
    \/ ReleaseTest(Runner)
    \/ ReleaseUnlink(Runner)
    \/ RunFinish
    \/ \E k \in Keys : ProviderActivates(k)

SpecRun == InitRun /\ [][NextRun]_vars

\* ------------------------------------------------------ run(), with progress
\* the positions inside the while-loop of acquire() and of
\* _poll_restore_completion
AcquirePcs == {"acq_loop", "acq_open", "stale_exists", "stale_stat", "acq_unlink", "acq_sleep"}
PollPcs == {"poll_test", "poll_pass", "poll_end"}

\* time passes while a loop waits: time.sleep(0.5) and the loop body of
\* acquire(), time.sleep(poll_interval) and the calls of a poll pass.  The
\* advances a loop takes before its deadline are taken as one advance of the
\* length of its timeout.
WaitTick ==
    /\ \/ /\ pc[Runner] \in AcquirePcs
          /\ now - start_time[Runner] < AcquireTimeout
          /\ now' = now + AcquireTimeout
       \/ /\ pc[Runner] \in PollPcs
          /\ now - run.poll_start < PollTimeout
          /\ now' = now + PollTimeout
    /\ UNCHANGED <<ticks, lockVars, runVars, auxVars>>

\* the steps of the script itself: the interpreter executes the next
\* statement, and every system call and provider call returns
RunSteps ==
    \/ MainFatal
    \/ MainExit
    \/ RunBegin
    \/ RunParse
    \/ RunCheckExisting
    \/ RunDecide
    \/ RunFindOld
    \/ RunCleanupOld
    \/ RunValidate
    \/ AcquireStart(Runner)
    \/ AcquireLoopTest(Runner)
    \/ AcquireOpen(Runner)
    \/ StaleExists(Runner)
    \/ StaleStat(Runner)
    \/ AcquireUnlink(Runner)
    \/ AcquireSleep(Runner)
    \/ RunEnterFailed
    \/ RunEnterBlock
    \/ RunInitiate
    \/ RunPollBegin
    \/ RunPollTest
    \/ RunPollPass
    \/ RunPollEnd
    \/ RunVerify
    \/ RunSwapClear
    \/ RunSwapCopy
    \/ RunCleanup
    \/ ReleaseTest(Runner)
    \/ ReleaseUnlink(Runner)
    \/ RunFinish

\* a run that may find a marker it cannot remove at the lock path
InitRunFair ==
    /\ now = 0
    /\ ticks = 0
    /\ marker \in InitialMarkers
    /\ pc = [p \in Procs |-> IF p = Runner THEN "begin" ELSE "idle"]
    /\ start_time = [p \in Procs |-> 0]
    /\ lock_acquired = [p \in Procs |-> FALSE]
    /\ created = [p \in Procs |-> -1]
    /\ \E dry \in BOOLEAN, r \in RunRecoveryPoints : run = RunInit(dry, r)
    /\ tstatus \in StartTableStates
    /\ start_tstatus = tstatus
    /\ old_exists \in OldTableSets
    /\ prod = Untouched
    /\ find = IdleFind
    /\ naming = IdleNaming
    /\ swap = IdleSwap
    /\ valid = IdleValid
    /\ orig = IdleOrig

NextRunFair ==
    \/ RunSteps
    \/ WaitTick
    \/ \E k \in Keys : ProviderActivates(k)

SpecRunFair ==
    InitRunFair /\ [][NextRunFair]_vars /\ WF_vars(RunSteps) /\ WF_vars(WaitTick)

InitName ==
    /\ now = 0
    /\ ticks = 0
    /\ marker = NoMarker
    /\ pc = [p \in Procs |-> "idle"]
    /\ start_time = [p \in Procs |-> 0]
    /\ lock_acquired = [p \in Procs |-> FALSE]
    /\ created = [p \in Procs |-> -1]
    /\ run = IdleRun
    /\ tstatus = NoTables
    /\ start_tstatus = NoTables
    /\ old_exists = {}
    /\ prod = Untouched
    /\ find = IdleFind
    /\ \E variant \in {"current", "original"}, env \in {"dev", "prod"}, key \in Keys,
          a \in NameRecoveryPoints, b \in NameRecoveryPoints :
         naming = NameInit(variant, env, key, a, b)
    /\ swap = IdleSwap
    /\ valid = IdleValid
    /\ orig = IdleOrig

NextName ==
    \/ Tick
    \/ \E i \in 1..2 : Derive(i)

SpecName == InitName /\ [][NextName]_vars

InitSwap ==
    /\ now = 0
    /\ ticks = 0
    /\ marker = NoMarker
    /\ pc = [p \in Procs |-> "idle"]
    /\ start_time = [p \in Procs |-> 0]
    /\ lock_acquired = [p \in Procs |-> FALSE]
    /\ created = [p \in Procs |-> -1]
    /\ run = IdleRun
    /\ tstatus = NoTables
    /\ start_tstatus = NoTables
    /\ old_exists = {}
    /\ prod = Untouched
    /\ find = IdleFind
    /\ naming = IdleNaming
    /\ \E n \in RowCounts, m \in RowCounts, shift \in {0, 1}, limit \in PageLimits :
         swap = SwapInit(1..n, (1 + shift)..(m + shift), limit)
    /\ valid = IdleValid
    /\ orig = IdleOrig

NextSwap ==
    \/ SwapClearDescribe
    \/ SwapClearScan
    \/ SwapClearBatch
    \/ SwapCopyScan
    \/ SwapCopyBatch

SpecSwap == InitSwap /\ [][NextSwap]_vars

InitValid ==
    /\ now = 0
    /\ ticks = 0
    /\ marker = NoMarker
    /\ pc = [p \in Procs |-> "idle"]
    /\ start_time = [p \in Procs |-> 0]
    /\ lock_acquired = [p \in Procs |-> FALSE]
    /\ created = [p \in Procs |-> -1]
    /\ run = IdleRun
    /\ tstatus = NoTables
    /\ start_tstatus = NoTables
    /\ old_exists = {}
    /\ prod = Untouched
    /\ find = IdleFind
    /\ naming = IdleNaming
    /\ swap = IdleSwap
    \* the local zone's offset differs between the recovery point and the
    \* validation only when a change of season lies between them
    /\ \E variant \in {"current", "original"}, i \in ValidInstants,
          zone_rp \in ZoneOffsets, zone_now \in ZoneOffsets :
         /\ zone_rp # zone_now => i <= 0 - Day
         /\ \E r \in Written(i, zone_rp) \cup {BadInput} :
              valid = ValidInit(variant, r, zone_rp, zone_now)
    /\ orig = IdleOrig

NextValid ==
    \/ Tick
    \/ ValidateCall

SpecValid == InitValid /\ [][NextValid]_vars

InitOrig ==
    /\ now = 0
    /\ ticks = 0
    /\ marker = NoMarker
    /\ pc = [p \in Procs |-> "idle"]
    /\ start_time = [p \in Procs |-> 0]
    /\ lock_acquired = [p \in Procs |-> FALSE]
    /\ created = [p \in Procs |-> -1]
    /\ run = IdleRun
    /\ tstatus = NoTables
    /\ start_tstatus = NoTables
    /\ old_exists = {}
    /\ prod = Untouched
    /\ find = IdleFind
    /\ naming = IdleNaming
    /\ swap = IdleSwap
    /\ valid = IdleValid
    /\ \E dry \in BOOLEAN, r \in RunRecoveryPoints, counts \in CountProfiles :
         orig = OrigInit(dry, r, counts)

NextOrig ==
    \/ OrigTick
    \/ OrigValidate
    \/ OrigEnterLock
    \/ OrigInitiate
    \/ OrigPollBegin
    \/ OrigPoll
    \/ OrigVerify
    \/ OrigSwap
    \/ OrigCleanup
    \/ \E k \in Keys : OrigProviderActivates(k)

SpecOrig == InitOrig /\ [][NextOrig]_vars

\* the run that searches (the Runner) has not entered its with-block; the
\* other process, when it holds the lock, created the marker and is inside
\* its with-block
InitFind ==
    /\ now = 0
    /\ ticks = 0
    /\ start_time = [p \in Procs |-> 0]
    /\ run = IdleRun
    /\ tstatus = NoTables
    /\ start_tstatus = NoTables
    /\ old_exists = {}
    /\ prod = Untouched
    /\ naming = IdleNaming
    /\ swap = IdleSwap
    /\ valid = IdleValid
    /\ orig = IdleOrig
    /\ \E env \in Envs, restores \in SUBSET RestoreCandidates, holder \in HolderTokens :
         /\ find = FindInit(env, ProductionTables \cup restores \cup HolderTables(env, holder),
                            holder)
         /\ IF holder = ""
              THEN /\ marker = NoMarker
                   /\ pc = [p \in Procs |-> "idle"]
                   /\ lock_acquired = [p \in Procs |-> FALSE]
                   /\ created = [p \in Procs |-> -1]
              ELSE \E h \in Procs \ {Runner}, stage \in RestoreUsePcs :
                   /\ marker = [exists |-> TRUE, owner |-> h, mtime |-> now,
                                removable |-> TRUE]
                   /\ pc = [p \in Procs |-> IF p = h THEN stage ELSE "idle"]
                   /\ lock_acquired = [p \in Procs |-> p = h]
                   /\ created = [p \in Procs |-> IF p = h THEN now ELSE -1]

NextFind ==
    \/ FindOld
    \/ CleanupOld

SpecFind == InitFind /\ [][NextFind]_vars

\* ---------------------------------------------------------------- claims
\* p's acquire() returned True and p has not called release() yet
Holding(p) == pc[p] \in AbstractPcs
\* the marker p created is not older than the staleness bound
MarkerFresh(p) == created[p] >= 0 /\ ~IsStaleAge(created[p])

\* C1: of two processes calling acquire on one lock path, at most one has
\* returned True while the other's marker is neither released nor stale.
C1_AcquireMutualExclusion ==
    \A p, q \in Procs :
        (p # q /\ Holding(p) /\ Holding(q)) => ~(MarkerFresh(p) /\ MarkerFresh(q))

\* C2: at most one run at a time is inside the locked part of the pipeline
\* (initiate, poll, verify, swap, cleanup), whatever the runs' duration.
C2_OneRunInLockedPipeline ==
    \A p, q \in Procs : (Holding(p) /\ Holding(q)) => p = q

\* C3: after _swap_table_data returns success, the production table's rows are
\* exactly the restore table's rows, whatever the contents and the scan pages.
C3_SwapComplete ==
    swap.result = "True" => (swap.prod_old = {} /\ swap.prod_new = swap.restore)

OpsCalled == {c.op : c \in run.calls}
LastStatus == IF run.status_log = <<>> THEN Status("", "")
              ELSE run.status_log[Len(run.status_log)]
Returned == run.ret # "none"

\* C4: recovery-point validation finishes before the first provider call of
\* any kind; a run whose recovery point is rejected has issued no provider call.
C4_ValidationBeforeProviderCalls ==
    run.validated # "ok" => run.calls = {}

\* C5: a run that fails to acquire the lock ends FAILED, returns False and has
\* issued no mutating provider call at any point of the run.
C5_LockFailureNoMutation ==
    (Returned /\ LastStatus = Status("FAILED", "Could not acquire restore lock"))
        => (run.ret = "False" /\ OpsCalled \cap MutatingOps = {})

AllActiveAtStart == \A k \in Keys : start_tstatus[k] = "ACTIVE"
SwapFinished == \A k \in Keys : prod[k] = "restored"

\* C6: when all three restore tables of the recovery point exist and are ACTIVE
\* at the start of a run, the run never calls restore_table_to_point_in_time,
\* deletes none of those tables before the swap, and does not enter initiation.
C6_IdempotentReentry ==
    AllActiveAtStart =>
        /\ "restore_table_to_point_in_time" \notin OpsCalled
        /\ Call("delete_table", "restore", "quotes") \in run.calls => SwapFinished
        /\ ~At("initiate")

\* C7: the restore table name is a function of the table and the recovery
\* point only: two derivations for the same table and recovery point, made at
\* whatever wall-clock times, give the same name.
C7_NameFunctionOfRecoveryPoint ==
    \A d1, d2 \in naming.derived : d1.rp = d2.rp => d1.name = d2.name

\* C8: in the current variant, recovery points that denote different instants
\* give different restore table names for the same table.
C8_DistinctInstantsDistinctNames ==
    naming.variant = "current" =>
        \A d1, d2 \in naming.derived :
            InstantOf(d1.rp) # InstantOf(d2.rp) => d1.name # d2.name

\* C9: once run() has returned, on whatever path, the marker file that the run
\* created no longer exists.
C9_MarkerGoneAfterReturn ==
    Returned => ~(marker.exists /\ marker.owner = Runner)

\* a run that acquired the lock and left the locked block by an exception
C9_Witness ==
    Returned /\ created[Runner] >= 0 /\ run.pending = "exception" /\ run.ret = "False"

Modified(k) == prod[k] # "original"

\* C10: no production row is deleted or written unless an earlier poll pass of
\* the run saw all three restore tables ACTIVE; a run whose poll timed out has
\* modified no production table.
C10_SwapOnlyAfterAllActive ==
    /\ ((\E k \in Keys : Modified(k)) \/ "batch_write_item" \in OpsCalled) => run.full_pass
    /\ LastStatus = Status("FAILED", "Restore operation timed out")
         => \A k \in Keys : ~Modified(k)

\* a non-dry run that refilled a production table after a full ACTIVE pass
C10_Witness ==
    ~run.dry_run /\ run.full_pass /\ prod["quotes"] = "restored"

\* _validate_restore_point has returned
Validated == valid.result # "none"
\* the age of the recovery point at validation: wall clock minus the instant
TrueAge == valid.at - LocalInstantOf(valid.rp, valid.zone_rp)
Parses == valid.rp.kind # "bad"

\* C11: a recovery point whose age at validation is greater than 35 days is
\* rejected, with or without a zone offset in the input.
C11_OlderThanRetentionRejected ==
    (Validated /\ Parses /\ TrueAge > MaxAge) => valid.result = "False"

C13_ExpiredPointInvalid ==
    run.rp = Aware(0 - 40 * Day, 0) =>
        /\ "restore_table_to_point_in_time" \notin OpsCalled
        /\ created[Runner] = -1
        /\ Returned => LastStatus = Status("FAILED", "Invalid restore point")

\* C14: a dry run issues no mutating provider call, whatever restore tables of
\* this or of other recovery points are present, leaves the production tables
\* alone, and has written a terminal status when it returns.
C14_DryRunMutatesNothing ==
    run.dry_run =>
        /\ OpsCalled \cap MutatingOps = {}
        /\ \A k \in Keys : ~Modified(k)
        /\ Returned => LastStatus[1] \in {"COMPLETED", "FAILED"}

\* a dry run that found old restore tables, went through every stage and
\* returned True
C14_Witness ==
    /\ run.dry_run /\ run.ret = "True" /\ old_exists # {}
    /\ LastStatus = Status("COMPLETED", "")

TimedOut == Status("FAILED", "Restore operation timed out")
StatusesWritten == {run.status_log[i] : i \in 1..Len(run.status_log)}

\* C15: when the poll deadline has elapsed at the loop test, the run records
\* FAILED "Restore operation timed out"; a run that recorded it ends with it,
\* returns False, has deleted none of its restore tables and has modified no
\* production table.
C15_PollTimeoutFails ==
    /\ [](TimedOut \in StatusesWritten =>
            /\ LastStatus = TimedOut
            /\ run.ret # "True"
            /\ \A k \in Keys : Call("delete_table", "restore", k) \notin run.calls
            /\ \A k \in Keys : ~Modified(k))
    /\ [][(At("poll_test") /\ now - run.poll_start >= PollTimeout /\ pc' # pc)
            => LastStatus' = TimedOut]_vars

\* a run that timed out with a restore still in flight and has returned
C15_Witness ==
    /\ Returned /\ LastStatus = TimedOut /\ ~run.dry_run
    /\ now - run.poll_start >= PollTimeout
    /\ \E k \in Keys : tstatus[k] = "CREATING"

\* C16: a single uncontended non-dry run with a recovery point two days old,
\* no restore table at start, restores initiated without a provider error and
\* ACTIVE before the poll deadline, and equal item counts ends COMPLETED with
\* every production table holding its restore table's rows and no restore
\* table left.
C16_HappyPathCompletes ==
    ( /\ orig.ret # "none" /\ ~orig.dry_run
      /\ orig.rp = Naive(0 - 2 * Day + BerlinOffset)
      /\ orig.init_token # <<>> /\ ~orig.faults
      /\ \A k \in Keys : orig.counts[k].original = orig.counts[k].restore
      /\ now - orig.poll_start < PollTimeout )
    => /\ orig.ret = "True"
       /\ orig.status_log[Len(orig.status_log)] = Status("COMPLETED", "")
       /\ \A k \in Keys : orig.prod[k] = "restored" /\ orig.made[k] = "ABSENT"

\* C17: the first status a run writes is INITIALIZING; nothing but one terminal
\* status (FAILED or COMPLETED) follows it; a run that returned has written
\* that terminal status.
C17_StatusLifecycle ==
    /\ run.status_log # <<>> => run.status_log[1] = Status("INITIALIZING", "")
    /\ Len(run.status_log) <= 2
    /\ Len(run.status_log) = 2 => run.status_log[2][1] \in {"FAILED", "COMPLETED"}
    /\ Returned => Len(run.status_log) = 2

\* a run that failed inside the locked block and has returned
C17_Witness ==
    /\ Returned /\ run.pending = "return_false"
    /\ LastStatus = Status("FAILED", "Data swap failed")

\* C18: the process exits with 0 exactly when the last status recorded is
\* COMPLETED and with 1 otherwise; run() returns True exactly when it wrote
\* COMPLETED.
C18_ExitCode ==
    /\ run.exit_code # -1 =>
         /\ run.exit_code \in {0, 1}
         /\ run.exit_code = 0 <=> LastStatus[1] = "COMPLETED"
    /\ Returned => (run.ret = "True" <=> LastStatus[1] = "COMPLETED")

\* a process that exited with 1 after a FAILED run
C18_Witness ==
    run.exit_code = 1 /\ LastStatus[1] = "FAILED" /\ run.ret = "False"

OpsOn(space) == {c.op : c \in {d \in run.calls : d.space = space}}
FailedWith(reason) == LastStatus = Status("FAILED", reason)

\* C19: when a stage fails the run does nothing of a later stage, records
\* FAILED with a non-empty reason and returns False: a failed validation or
\* lock acquisition is followed by no restore, count, swap or delete of this
\* recovery point's tables; a failed initiation or poll by no count, swap or
\* delete; a failed verification by no swap or delete; a failed swap by no
\* delete; and once FAILED is recorded no provider call follows.
C19_FailureShortCircuits ==
    /\ [](LastStatus[1] = "FAILED" => LastStatus[2] # "" /\ run.ret # "True")
    /\ []((Returned /\ run.ret = "False") => LastStatus[1] = "FAILED")
    /\ []((FailedWith("Invalid restore point") \/ FailedWith("Could not acquire restore lock"))
            => /\ OpsOn("restore") \subseteq {"describe_table"}
               /\ OpsOn("prod") = {}
               /\ \A k \in Keys : ~Modified(k))
    /\ []((FailedWith("Invalid restore point")) => created[Runner] = -1)
    /\ []((FailedWith("Failed to initiate PITR restores") \/ FailedWith("Restore operation timed out"))
            => /\ OpsOn("restore") \subseteq {"describe_table", "restore_table_to_point_in_time"}
               /\ OpsOn("prod") \subseteq {"describe_table"}
               /\ \A k \in Keys : ~Modified(k))
    /\ [](FailedWith("Item count mismatch")
            => /\ "delete_table" \notin OpsOn("restore")
               /\ OpsOn("prod") \subseteq {"describe_table", "scan"}
               /\ \A k \in Keys : ~Modified(k))
    /\ [](FailedWith("Data swap failed") => "delete_table" \notin OpsOn("restore"))
    /\ [][(LastStatus[1] = "FAILED" \/ run.pending \in {"return_false", "exception"})
            => (run.calls' = run.calls /\ prod' = prod)]_vars

\* a run whose verification failed after a count, and that has returned
C19_Witness ==
    /\ Returned /\ FailedWith("Item count mismatch")
    /\ "scan" \in OpsOn("prod")

\* C20: cleanup is best-effort: whichever delete_table calls fail, a non-dry
\* run that reached the cleanup attempts the deletion of each of the three
\* restore tables and ends COMPLETED with run() returning True.
C20_CleanupBestEffort ==
    (~run.dry_run /\ Returned /\ "delete_table" \in OpsOn("restore"))
        => /\ \A k \in Keys : Call("delete_table", "restore", k) \in run.calls
           /\ LastStatus = Status("COMPLETED", "")
           /\ run.ret = "True"

\* C21: in the current variant the item-count check returns True for every
\* combination of original and restored counts and the run goes on to the
\* swap; the check never ends the run FAILED.
C21_CountCheckNeverFails ==
    /\ \A cmp \in CountComparisons : CountsPass(cmp)
    /\ ~FailedWith("Item count mismatch")

\* C22: in the original variant, when the original and the restored item
\* count of some table differ at verification, the run ends FAILED with reason
\* "Item count mismatch", no production table is modified and no restore table
\* is deleted.
C22_StrictMismatchFails ==
    ( /\ orig.ret # "none" /\ ~orig.dry_run
      /\ Call("scan", "prod", "quotes") \in orig.calls
      /\ \E k \in Keys : orig.counts[k].original # orig.counts[k].restore )
    => /\ orig.status_log[Len(orig.status_log)] = Status("FAILED", "Item count mismatch")
       /\ \A k \in Keys : orig.prod[k] = "original"
       /\ \A k \in Keys : Call("delete_table", "restore", k) \notin orig.calls

\* C23: every run that started eventually returns with a terminal status
\* (COMPLETED or FAILED) recorded; acquire() returns, also with a stale marker
\* that cannot be removed at the lock path, and _poll_restore_completion
\* returns, also when a restore table never becomes ACTIVE; given that time
\* advances and every call returns.
C23_RunTerminates ==
    /\ (run.status_log # <<>>) ~> (Returned /\ LastStatus[1] \in {"COMPLETED", "FAILED"})
    /\ (pc[Runner] \in AcquirePcs) ~> (pc[Runner] \notin AcquirePcs)
    /\ (pc[Runner] \in PollPcs) ~> (pc[Runner] \notin PollPcs)

\* a run that gave up on a stale marker it could not remove
C23_Witness ==
    /\ Returned /\ FailedWith("Could not acquire restore lock")
    /\ marker.exists /\ ~marker.removable /\ IsStaleAge(marker.mtime)

\* C24: when some restore table of this recovery point exists at start without
\* being ACTIVE, the run never calls restore_table_to_point_in_time, deletes
\* no restore table of another recovery point and none of its own before a
\* poll pass saw all ACTIVE, and never enters initiation.
C24_InFlightGoesToPolling ==
    (\E k \in Keys : start_tstatus[k] = "CREATING") =>
        /\ "restore_table_to_point_in_time" \notin OpsCalled
        /\ "delete_table" \notin OpsOn("old")
        /\ "delete_table" \in OpsOn("restore") => run.full_pass
        /\ ~At("initiate") /\ ~At("cleanup_old")

\* on table names: every name given to delete_table by the cleanup of old
\* restore tables is a restore table of this environment's table set that is
\* not a current restore name; no production table, no current restore table
\* and no restore table of the other environment is among them
OldCleanupDeletesOnlyOwnOld ==
    \A t \in ProductionTables \cup RestoreCandidates :
        NameOfTable(t) \in find.deleted \cup find.old =>
            /\ t.kind = "restore"
            /\ t.env = find.env
            /\ t.token # CurrentToken

\* C25: the cleanup of stale restore tables runs only when none of the current
\* recovery point's restore tables exists, and before the swap the run deletes
\* only restore tables of other recovery points.
C25_StaleCleanupOnlyWithoutCurrent ==
    /\ (At("cleanup_old") \/ "delete_table" \in OpsOn("old"))
          => \A k \in Keys : start_tstatus[k] = "ABSENT"
    /\ "delete_table" \in OpsOn("restore") => run.full_pass
    /\ "delete_table" \notin OpsOn("prod")

InitiateFailed == FailedWith("Failed to initiate PITR restores")
RestoreCall(k) == Call("restore_table_to_point_in_time", "restore", k)

\* C27: within one run restore_table_to_point_in_time is called at most once
\* per table; when the provider rejects the call for a table, no call is made
\* for the tables after it, the run records FAILED "Failed to initiate PITR
\* restores" and returns False, and no production table is modified.
C27_InitiationNotRetried ==
    /\ [][(At("initiate") /\ run'.calls # run.calls)
            => /\ RestoreCall(TableKeys[run.idx]) \notin run.calls
               /\ run'.calls = run.calls \cup {RestoreCall(TableKeys[run.idx])}
                  \/ (run'.pending = "return_false" /\ InitiateFailed')]_vars
    /\ [](run.answer = "rejected" => (InitiateFailed /\ run.pending = "return_false"))
    /\ [](InitiateFailed =>
            /\ \A k \in Keys : RestoreCall(k) \in run.calls <=> KeyIndex(k) <= run.idx
            /\ \A k \in Keys : ~Modified(k)
            /\ run.ret # "True")
    /\ [][InitiateFailed => (InitiateFailed' /\ run'.calls = run.calls)]_vars

\* a run whose first restore was accepted and whose second was rejected
C27_Witness ==
    /\ Returned /\ InitiateFailed /\ run.idx = 2 /\ run.answer = "rejected"
    /\ tstatus["quotes"] = "CREATING" /\ tstatus["user_likes"] = "ABSENT"

\* C28: every batch_write_item request issued while a production table is
\* cleared or refilled carries at least 1 and at most 25 operations, whatever
\* the size of the scan pages.
C28_BatchSizeBounds ==
    \A n \in swap.sizes : 1 <= n /\ n <= BatchSize

\* a swap that finished over scan pages of more than 25 items, with a full
\* batch and a batch of one, and whose restore table was empty
C28_Witness ==
    /\ swap.result = "True" /\ swap.limit > BatchSize
    /\ {1, BatchSize} \subseteq swap.sizes
    /\ swap.restore = {}

SwapFailedStatus == FailedWith("Data swap failed")
\* a production table that a failed batch operation left between two contents
Broken(k) == prod[k] \in {"partly_cleared", "empty", "partly_restored"}

C30_EmptyBetweenPhases ==
    (swap.result = "False" /\ swap.failed_at = "copy_scan" /\ swap.last_key = 0)
        => swap.prod_old = {} /\ swap.prod_new = {}

\* C31: a run deletes a restore table of its own recovery point only after
\* every production table was refilled from its restore table in that run; a
\* run that recorded FAILED has issued no delete_table for its restore tables
\* and every restore table that existed when it started still exists.
C31_DeleteOnlyAfterFullSwap ==
    /\ [](("delete_table" \in OpsOn("restore"))
            => /\ \A j \in Keys : prod[j] = "restored"
               /\ \A j \in Keys : Call("batch_write_item", "prod", j) \in run.calls
               /\ \A i \in 1..Len(run.status_log) : run.status_log[i][1] # "FAILED")
    /\ [](LastStatus[1] = "FAILED"
            => /\ "delete_table" \notin OpsOn("restore")
               /\ \A k \in Keys : start_tstatus[k] # "ABSENT" => tstatus[k] # "ABSENT")
    /\ [][\A k \in Keys : (tstatus[k] # "ABSENT" /\ tstatus'[k] = "ABSENT")
            => (At("cleanup") /\ \A j \in Keys : prod[j] = "restored")]_vars

\* a run that refilled the three production tables and then deleted its
\* restore tables
C31_Witness ==
    /\ Returned /\ LastStatus = Status("COMPLETED", "")
    /\ \A k \in Keys : Call("delete_table", "restore", k) \in run.calls
    /\ \A k \in Keys : tstatus[k] = "ABSENT" /\ prod[k] = "restored"

\* C32: acquire removes a marker that another process created only if that
\* marker is older than the staleness bound at the moment of the removal; an
\* age test that finds the marker younger than the bound leads to the back-off
\* with the marker and lock_acquired unchanged, and an acquire that ran out of
\* time has not set lock_acquired.
C32_RemovesOnlyStale ==
    /\ [][\A p \in Procs :
            (pc[p] = "acq_unlink" /\ pc'[p] = "acq_loop"
               /\ marker.exists /\ ~marker'.exists /\ marker.owner # p)
              => IsStaleAge(marker.mtime)]_vars
    /\ [][\A p \in Procs :
            (pc[p] = "stale_stat" /\ pc'[p] # pc[p]
               /\ marker.exists /\ ~IsStaleAge(marker.mtime))
              => (pc'[p] = "acq_sleep" /\ marker' = marker
                    /\ lock_acquired' = lock_acquired)]_vars
    /\ [](\A p \in Procs : pc[p] = "acq_failed" => ~lock_acquired[p])

\* C33: while another run holds the lock and polls, verifies or swaps from its
\* restore tables, the run gives none of those tables to delete_table, and a
\* run deletes restore tables only while it holds the lock itself.
C33_NoDeleteUnderForeignLock ==
    /\ \A h \in Procs \ {Runner} :
         (lock_acquired[h] /\ pc[h] \in RestoreUsePcs)
           => \A t \in HolderTables(find.env, find.holder) :
                NameOfTable(t) \notin find.deleted
    /\ find.deleted # {} => lock_acquired[Runner]

\* C34: when a non-dry run starts polling, each of the three restore tables
\* of its recovery point exists at the provider or was given to
\* restore_table_to_point_in_time by this run.
C34_MissingTablesInitiated ==
    (At("poll_begin") /\ ~run.dry_run)
        => \A k \in Keys :
             \/ tstatus[k] # "ABSENT"
             \/ Call("restore_table_to_point_in_time", "restore", k) \in run.calls

\* C35: release removes the marker file only when the marker on disk is the
\* one the releasing process created.
C35_ReleaseOnlyOwnMarker ==
    [][\A p \in Procs :
         (pc[p] = "rel_unlink" /\ pc'[p] = "released" /\ marker.exists /\ ~marker'.exists)
           => (marker.owner = p /\ marker.mtime = created[p])]_vars

\* C36: in the original variant the restore table names run() polls, verifies,
\* copies from and deletes carry the timestamp of the names the restores were
\* initiated with.
C36_SameNamesAfterInitiation ==
    (orig.token # <<>> /\ orig.init_token # <<>>) => orig.token = orig.init_token

\* C37: a non-dry run writes COMPLETED only after a poll pass that saw the
\* three restore tables ACTIVE and after each production table was cleared and
\* refilled from its restore table; no table is left original, empty or partly
\* swapped, and no FAILED status was written.
C37_CompletedOnlyAfterFullSwap ==
    (~run.dry_run /\ \E i \in 1..Len(run.status_log) : run.status_log[i][1] = "COMPLETED")
        => /\ run.full_pass
           /\ \A k \in Keys :
                /\ prod[k] = "restored"
                /\ Call("scan", "restore", k) \in run.calls
                /\ Call("batch_write_item", "prod", k) \in run.calls
           /\ \A i \in 1..Len(run.status_log) : run.status_log[i][1] # "FAILED"
           /\ LastStatus = Status("COMPLETED", "")

\* a non-dry run that initiated its restores, swapped the three tables and
\* wrote COMPLETED
C37_Witness ==
    /\ ~run.dry_run /\ Returned /\ LastStatus = Status("COMPLETED", "")
    /\ "restore_table_to_point_in_time" \in OpsOn("restore")
    /\ run.full_pass /\ \A k \in Keys : prod[k] = "restored"

\* C38: FAILED with reason "Item count mismatch" is recorded only when the
\* count check compared two counts that differ; a provider error while
\* counting is not recorded under that reason.
C38_MismatchReasonOnlyForMismatch ==
    FailedWith("Item count mismatch") => run.answer \in {"lower", "higher"}

\* C39: no request that batch_write_item reported as unprocessed is still
\* outstanding when _clear_table returns or when _copy_table_data returns, and
\* _swap_table_data returns True only when every request it submitted was
\* applied.
C39_UnprocessedResubmitted ==
    /\ (swap.pc = "copy_scan" /\ swap.last_key = 0) => swap.dropped = 0
    /\ swap.result = "True" => swap.dropped = 0
====
